---- MODULE Spec2Model ----
(***************************************************************************)
(* Playback-readiness pipeline of the Evd backend: the media use-case      *)
(* service (job registry, readiness probes, HLS / MP4 kickoff and status,  *)
(* conversion goroutines, the MP4 gate and the MP4 prewarm loops).         *)
(*                                                                         *)
(* Granularity.  A handler is not atomic in the Go code: it takes the      *)
(* registry mutex once per registry call and touches the filesystem in     *)
(* between.  Every action below is one such segment: one registry call,    *)
(* one channel operation, or one run of consecutive filesystem calls of    *)
(* one goroutine on one artifact directory.  A call in flight is a frame   *)
(* in `calls`, a conversion goroutine is an element of `workers`.          *)
(***************************************************************************)
EXTENDS Integers, Sequences, FiniteSets, Bags, TLC

(***************************************************************************)
(* Bounds of the model.                                                    *)
(***************************************************************************)
MaxCalls == 3        \* user requests issued in one run
MaxInFlight == 2     \* user requests in flight at once
MaxRestarts == 1     \* process restarts in one run
MaxSegments == 2     \* HLS segments one conversion writes
MaxScans == 3        \* prewarm scans in one run
MaxLibraryScans == 5 \* prewarm scans in one run over a library that loses files
MaxLiveScans == 2    \* prewarm scans in one run under fair scheduling
MaxModifies == 2     \* times one video file is rewritten
MaxOffered == 514    \* videos in the large library one scan goes through
MaxFileSize == 3     \* bytes the growing input file reaches
MaxClock == 9        \* ticks of the reader's clock in one run
PollTicks == 2       \* growReader.poll (500 ms) in ticks
HLSIdleTicks == 3    \* the idle timeout StartHLS passes (2 min) in ticks
StreamIdleTicks == 5 \* the idle timeout of StreamMP4 without follow (10 min) in ticks
BufLen == 2          \* len(p) of one Read
MaxStreamSize == 12
MaxRange == 20
MaxNegative == 2
MaxLength == 8
MaxPieceSize == 3
MaxDuration == 6
MaxSeconds == 4
MaxFocusInFlight == 2
MaxFocusCalls == 3
MaxSessionCalls == 2
MaxPrewarmCalls == 1 \* user requests issued while the prewarm loops run

(***************************************************************************)
(* Program constants.                                                      *)
(***************************************************************************)
defaultMP4Concurrency == 1
mp4ReadyMinBytes == 524288
defaultPrewarmStableFor == 40    \* seconds
prewarmQueueSize == 512
PrewarmInterval == 45            \* seconds: main starts the prewarm with 45*time.Second

JobHLS == "hls"
JobMP4 == "mp4"

StateIdle == "idle"
StateProcessing == "processing"
StateReady == "ready"
StateFailed == "failed"

(***************************************************************************)
(* The library and the requests made of it.  Output directories mirror     *)
(* the resource path, so each resource has its own HLS directory and its   *)
(* own MP4 directory.                                                      *)
(***************************************************************************)
Resources == {"a.mkv", "b.avi", "c.mp4"}
RawPaths == Resources \cup {"gone.mkv"}
HLSRequests == {"a.mkv"}
MP4Requests == {"a.mkv", "b.avi", "c.mp4", "gone.mkv"}

\* strings.ToLower(filepath.Ext(rel))
Ext(rel) ==
  CASE rel = "a.mkv" -> ".mkv"
    [] rel = "b.avi" -> ".avi"
    [] rel = "c.mp4" -> ".mp4"
    [] OTHER -> ".mkv"

\* File contents are sequences of characters.
V4 == <<"v", "4">>
V5 == <<"v", "5">>
Versions == {V4, V5}
NoFile == <<"ENOENT">>

\* Sizes (bytes) a video file of the library can have.
VideoSizes == {700, 900}
\* The videos that are still being written while the service runs.
GrowingVideos == {"a.mkv"}
\* Sizes (bytes) a finished MP4 output can have: below and above the threshold.
OutputSizes == {1000, 1048576}
\* Percentages int(out_time_ms / totalMs * 100) the backend's progress lines give.
RawPercents == {50, 150}
\* The error text of a failed backend run.
BackendErrors == {"ffmpeg failed: exit status 1"}

VARIABLES
  converter,        \* ffmpeg.Converter: [HLSVersion, MP4Version]
  videos,           \* the catalog: resource -> [Size, ModifiedAt]
  hlsDir,           \* per resource, the HLS output directory
  mp4Dir,           \* per resource, the MP4 output directory
  jobs,             \* jobRegistry.jobs: key -> jobState (a partial map)
  mp4Slots,         \* tokens held in the mp4Slots channel
  workers,          \* bag of conversion goroutines
  calls,            \* bag of handler calls in flight
  ret,              \* the response the last step delivered, NoRet otherwise
  prewarmQueue,     \* the prewarmQueue channel
  prewarmQueued,    \* Service.prewarmQueued
  prewarmObserved,  \* Service.prewarmObserved
  pw,               \* the prewarm worker goroutine: [pc, rel]
  now,              \* wall clock, in seconds
  nCalls, nRestarts, nScans,
  offered,          \* videos of a large library the scanner has gone through
  gr,               \* a growReader and the Read call in progress on it
  input,            \* the file the growReader follows: [size, grewAt]
  ctxDone,          \* the growReader's ctx is cancelled
  clock,            \* the growReader's wall clock, in ticks
  http,             \* a streamFile call: the request, then the response written
  focus,            \* a startPieceForRatio call: the arguments, then the result
  client,           \* transmission.Client: focusMode, lastPiece, sessionID
  fcalls,           \* Client.SetStreamingFocus calls in flight, by goroutine
  nFocus,           \* SetStreamingFocus calls made so far
  svc               \* a torrent Service.SetStreamingFocus call and its gateway

\* What the media service's requests and goroutines never touch.
reader == <<gr, input, ctxDone, clock>>
negotiator == <<client, fcalls, nFocus>>
aside == <<offered, reader, http, focus, negotiator, svc>>

vars == <<converter, videos, hlsDir, mp4Dir, jobs, mp4Slots, workers, calls, ret,
          prewarmQueue, prewarmQueued, prewarmObserved, pw, now,
          nCalls, nRestarts, nScans, aside>>

disk == <<hlsDir, mp4Dir>>
prewarmVars == <<prewarmQueue, prewarmQueued, prewarmObserved, pw, now, nScans>>

(***************************************************************************)
(* Helpers.                                                                *)
(***************************************************************************)
BagAdd(b, x) == b (+) SetToBag({x})
BagDel(b, x) == b (-) SetToBag({x})

IsSpace(c) == c \in {" ", "\n", "\t", "\r"}

RECURSIVE TrimLeft(_)
TrimLeft(s) ==
  IF s # <<>> /\ IsSpace(Head(s)) THEN TrimLeft(Tail(s)) ELSE s

RECURSIVE TrimRight(_)
TrimRight(s) ==
  IF s # <<>> /\ IsSpace(s[Len(s)]) THEN TrimRight(SubSeq(s, 1, Len(s) - 1)) ELSE s

TrimSpace(s) == TrimRight(TrimLeft(s))

jobKey(jobType, relPath) == jobType \o ":" \o relPath

Keys == {jobKey(JobHLS, r) : r \in HLSRequests} \cup {jobKey(JobMP4, r) : r \in MP4Requests}

(***************************************************************************)
(* Job registry (jobRegistry).  Each operator is one call under j.mu.      *)
(***************************************************************************)
NewJobState == [state |-> "", err |-> "", progress |-> 0]

JobOrNew(j, key) == IF key \in DOMAIN j THEN j[key] ELSE NewJobState

Put(j, key, st) == [k \in DOMAIN j \cup {key} |-> IF k = key THEN st ELSE j[k]]

IsRunning(j, key) == key \in DOMAIN j /\ j[key].state = StateProcessing

RegStart(j, key) == Put(j, key, [state |-> StateProcessing, err |-> "", progress |-> 0])

RegReady(j, key) ==
  Put(j, key, [JobOrNew(j, key) EXCEPT !.state = StateReady, !.progress = 100])

RegFail(j, key, err) ==
  Put(j, key, [JobOrNew(j, key) EXCEPT !.state = StateFailed, !.err = err])

RegStatus(j, key) ==
  IF key \notin DOMAIN j
    THEN [state |-> StateIdle, err |-> "", progress |-> 0]
    ELSE j[key]

Clamp(value) == IF value < 0 THEN 0 ELSE IF value > 100 THEN 100 ELSE value

RegProgressOverwrite(j, key, value) ==
  Put(j, key, [JobOrNew(j, key) EXCEPT !.progress = Clamp(value)])

RegProgress(j, key, value) ==
  LET st == JobOrNew(j, key)
      v == Clamp(value)
  IN Put(j, key, IF v > st.progress THEN [st EXCEPT !.progress = v] ELSE st)

(***************************************************************************)
(* Readiness probes: pure reads of one artifact directory.                 *)
(***************************************************************************)
markerPresent(marker, version) == marker # NoFile

markerMatches(marker, version) == marker # NoFile /\ TrimSpace(marker) = version

hlsSegments(d, version) ==
  IF ~markerMatches(d.marker, version) THEN 0
  ELSE IF ~d.playlist THEN 0
  ELSE d.segments

hlsReady(d, version) ==
  /\ markerMatches(d.marker, version)
  /\ d.playlist
  /\ d.segments > 0

mp4Ready(d, version) ==
  /\ markerMatches(d.marker, version)
  /\ d.output.exists
  /\ d.output.size >= mp4ReadyMinBytes

EmptyHLS ==
  [dir |-> FALSE, marker |-> NoFile, playlist |-> FALSE, segments |-> 0, ended |-> FALSE]

NoOutput == [exists |-> FALSE, size |-> 0]

EmptyMP4 == [marker |-> NoFile, output |-> NoOutput, tmp |-> FALSE]

\* os.RemoveAll(outputDir); os.MkdirAll(outputDir); os.WriteFile(marker, HLSMarkerVersion())
prepareHLSOutput(d, version) == [EmptyHLS EXCEPT !.dir = TRUE, !.marker = version]

\* os.Remove(outputPath); os.Remove(marker); os.MkdirAll(outputDir)
prepareMP4Output(d) == [d EXCEPT !.output = NoOutput, !.marker = NoFile]

(***************************************************************************)
(* Responses.                                                              *)
(***************************************************************************)
JobStatus(state, ready, processing, segments, error, progress) ==
  [State |-> state, Ready |-> ready, Processing |-> processing,
   Segments |-> segments, Error |-> error, Progress |-> progress]

ZeroStatus == JobStatus("", FALSE, FALSE, 0, "", 0)

NoRet == [op |-> "none"]

\* What a call hands back: the JobStatus and the error ("" for nil), with the
\* probe result the call had read.
Deliver(f, status, err) ==
  [op |-> f.op, rel |-> f.rel, by |-> f.by, ready |-> f.ready, segments |-> f.segments,
   status |-> status, err |-> err]

KindOf(op) == IF op \in {"StartHLS", "HLSStatus"} THEN JobHLS ELSE JobMP4

IsKickoff(op) == op \in {"StartHLS", "StartMP4"}

Frame(op, rel, by, ready, segments) ==
  [op |-> op, rel |-> rel, by |-> by, pc |-> "registry",
   ready |-> ready, segments |-> segments]

Worker(kind, rel, pc) == [kind |-> kind, rel |-> rel, pc |-> pc, last |-> 0, err |-> ""]

UserCalls == {f \in BagToSet(calls) : f.by = "user"}

InFlight == BagCardinality(calls) - (IF \E f \in BagToSet(calls) : f.by = "prewarm" THEN 1 ELSE 0)

IdlePw == [pc |-> "idle", rel |-> ""]

\* runMP4PrewarmWorker after StartMP4 returned to it: skip on error, wait for the
\* job when the status is Processing, else take the next queue item.
pwAfter(f, status, err) ==
  IF f.by # "prewarm" THEN pw
  ELSE IF err # "" THEN IdlePw
  ELSE IF status.State = StateProcessing THEN [pc |-> "wait", rel |-> f.rel]
  ELSE IdlePw

(***************************************************************************)
(* growReader: the io.Reader over an input file that is still growing.     *)
(***************************************************************************)
NoReader == [pc |-> "closed"]

\* Service.StreamMP4: idleTimeout := 10 * time.Minute; if follow { idleTimeout = 0 }
StreamMP4IdleTimeout(follow) == IF follow THEN 0 ELSE StreamIdleTicks

\* The idle timeout each caller of newGrowReader passes.
IdleTimeoutOf(caller) ==
  IF caller = "StreamMP4" THEN StreamMP4IdleTimeout(TRUE) ELSE HLSIdleTicks

Min(a, b) == IF a < b THEN a ELSE b

(***************************************************************************)
(* streamFile: header text is a sequence of characters; fmt.Sscanf,        *)
(* strings.Split and fmt.Sprintf are computed character by character.      *)
(***************************************************************************)
Digits == <<"0", "1", "2", "3", "4", "5", "6", "7", "8", "9">>

IsDigit(c) == \E i \in 1..10 : Digits[i] = c

DigitValue(c) == (CHOOSE i \in 1..10 : Digits[i] = c) - 1

\* strconv.FormatInt(n, 10) / %d of fmt.Sprintf
RECURSIVE FormatNat(_)
FormatNat(n) ==
  IF n < 10 THEN <<Digits[n + 1]>> ELSE FormatNat(n \div 10) \o <<Digits[(n % 10) + 1]>>

FormatInt(n) == IF n < 0 THEN <<"-">> \o FormatNat(-n) ELSE FormatNat(n)

\* The digits at the head of s: <<value, number of digits>>, from acc and k.
RECURSIVE ScanDigits(_, _, _)
ScanDigits(s, acc, k) ==
  IF s # <<>> /\ IsDigit(Head(s))
    THEN ScanDigits(Tail(s), acc * 10 + DigitValue(Head(s)), k + 1)
    ELSE <<acc, k>>

\* The verb %d of fmt.Sscanf on s: optional sign, then at least one digit.
ScanInt(s) ==
  LET t == TrimLeft(s)
      signed == t # <<>> /\ Head(t) \in {"-", "+"}
      body == IF signed THEN Tail(t) ELSE t
      d == ScanDigits(body, 0, 0)
  IN [ok |-> d[2] > 0,
      value |-> IF signed /\ Head(t) = "-" THEN -d[1] ELSE d[1],
      rest |-> SubSeq(body, d[2] + 1, Len(body))]

HasPrefix(s, prefix) ==
  Len(s) >= Len(prefix) /\ SubSeq(s, 1, Len(prefix)) = prefix

TrimPrefix(s, prefix) ==
  IF HasPrefix(s, prefix) THEN SubSeq(s, Len(prefix) + 1, Len(s)) ELSE s

\* strings.Split(s, "-"), the part being collected in cur
RECURSIVE SplitDash(_, _)
SplitDash(s, cur) ==
  IF s = <<>> THEN <<cur>>
  ELSE IF Head(s) = "-" THEN <<cur>> \o SplitDash(Tail(s), <<>>)
  ELSE SplitDash(Tail(s), Append(cur, Head(s)))

BytesEq == <<"b", "y", "t", "e", "s", "=">>

BytesSp == <<"b", "y", "t", "e", "s", " ">>

\* fmt.Sscanf(rangeHeader, "bytes=%d-", &start): [ok, value]
ScanStart(rangeHeader) ==
  IF ~HasPrefix(rangeHeader, BytesEq) THEN [ok |-> FALSE, value |-> 0]
  ELSE LET r == ScanInt(TrimPrefix(rangeHeader, BytesEq))
       IN [ok |-> r.ok /\ r.rest # <<>> /\ Head(r.rest) = "-", value |-> r.value]

ScanEndIgnored(rangeHeader, fileSize) == fileSize - 1

\* The end of the range as streamFile reads it, before clamping.
ScanEnd(rangeHeader, fileSize) ==
  LET parts == SplitDash(TrimPrefix(rangeHeader, BytesEq), <<>>)
  IN IF Len(parts) = 2 /\ parts[2] # <<>> /\ ScanInt(parts[2]).ok
       THEN ScanInt(parts[2]).value
       ELSE fileSize - 1

\* The file holds the bytes 0, 1, 2, ...: the byte at offset i is i % 256.
FileBytes(from, count) == [i \in 1..count |-> (from + i - 1) % 256]

Response(status, contentRange, contentLength, fileBytes) ==
  [status |-> status, contentRange |-> contentRange,
   contentLength |-> contentLength, fileBytes |-> fileBytes]

NoHeader == <<>>

StartOutsideAboveOnly(start, fileSize) == start >= fileSize

\* if start < 0 || start >= fileSize
StartOutside(start, fileSize) == start < 0 \/ start >= fileSize

\* streamFile on an open file of fileSize bytes
streamFile(rangeHeader, fileSize) ==
  IF rangeHeader = <<>>
    THEN Response(200, NoHeader, FormatInt(fileSize), FileBytes(0, fileSize))
  ELSE IF ~ScanStart(rangeHeader).ok
    THEN Response(416, NoHeader, NoHeader, <<>>)
  ELSE LET start == ScanStart(rangeHeader).value
           end0 == ScanEnd(rangeHeader, fileSize)
           end == IF end0 >= fileSize THEN fileSize - 1 ELSE end0
           invalid == Response(416, BytesSp \o <<"*", "/">> \o FormatInt(fileSize),
                               NoHeader, <<>>)
       IN IF StartOutside(start, fileSize) THEN invalid
          ELSE IF start > end THEN invalid
          ELSE Response(206,
                        BytesSp \o FormatInt(start) \o <<"-">> \o FormatInt(end)
                                \o <<"/">> \o FormatInt(fileSize),
                        FormatInt(end - start + 1),
                        FileBytes(start, end - start + 1))

(***************************************************************************)
(* float64 arithmetic of startPieceForRatio.  A float64 is a significand   *)
(* of at most 53 bits over a power of two: value = sig / 2^scale.  The     *)
(* significand is a little-endian sequence of 15-bit limbs, so that every  *)
(* intermediate product stays below 2^31.                                  *)
(***************************************************************************)
LimbBits == 15

LimbBase == 32768

MantissaBits == 53

RECURSIVE Pow2(_)
Pow2(n) == IF n = 0 THEN 1 ELSE 2 * Pow2(n - 1)

RECURSIVE BitLen(_)
BitLen(n) == IF n = 0 THEN 0 ELSE 1 + BitLen(n \div 2)

RECURSIVE BigTrim(_)
BigTrim(x) ==
  IF x # <<>> /\ x[Len(x)] = 0 THEN BigTrim(SubSeq(x, 1, Len(x) - 1)) ELSE x

\* n < 2^30 as limbs
BigOf(n) == BigTrim(<<n % LimbBase, n \div LimbBase>>)

\* a value below 2^30 back as an integer
BigToInt(x) ==
  IF x = <<>> THEN 0 ELSE IF Len(x) = 1 THEN x[1] ELSE x[1] + LimbBase * x[2]

RECURSIVE BigMulCarry(_, _, _)
BigMulCarry(x, k, carry) ==
  IF x = <<>> THEN <<carry>>
  ELSE LET t == Head(x) * k + carry
       IN <<t % LimbBase>> \o BigMulCarry(Tail(x), k, t \div LimbBase)

\* x * k for 0 <= k <= 2^15
BigMulSmall(x, k) == BigTrim(BigMulCarry(x, k, 0))

\* <<quotient limbs, remainder>> of x / k, the high limbs first
RECURSIVE BigDivRec(_, _)
BigDivRec(x, k) ==
  IF x = <<>> THEN <<<<>>, 0>>
  ELSE LET hi == BigDivRec(Tail(x), k)
           t == hi[2] * LimbBase + Head(x)
       IN <<<<t \div k>> \o hi[1], t % k>>

\* x divided by k, 0 < k <= 2^15: quotient and remainder
BigDivSmall(x, k) ==
  LET d == BigDivRec(x, k) IN [q |-> BigTrim(d[1]), r |-> d[2]]

BigBitLen(x) ==
  IF x = <<>> THEN 0 ELSE LimbBits * (Len(x) - 1) + BitLen(x[Len(x)])

\* x * 2^n
BigShl(x, n) ==
  BigMulSmall([i \in 1..(n \div LimbBits) |-> 0] \o x, Pow2(n % LimbBits))

\* floor(x / 2^n)
BigShr(x, n) ==
  IF n \div LimbBits >= Len(x) THEN <<>>
  ELSE BigDivSmall(SubSeq(x, (n \div LimbBits) + 1, Len(x)), Pow2(n % LimbBits)).q

RECURSIVE BigIncr(_)
BigIncr(x) ==
  IF x = <<>> THEN <<1>>
  ELSE IF Head(x) + 1 < LimbBase THEN <<Head(x) + 1>> \o Tail(x)
  ELSE <<0>> \o BigIncr(Tail(x))

BigOdd(x) == x # <<>> /\ x[1] % 2 = 1

\* Round to nearest, ties to even: the quotient q with remainder r of a
\* division by k.
RoundNearestEven(q, r, k) ==
  IF 2 * r > k \/ (2 * r = k /\ BigOdd(q)) THEN BigIncr(q) ELSE q

Float(neg, sig, scale) == [neg |-> neg, sig |-> sig, scale |-> scale]

FloatZero == Float(FALSE, <<>>, 0)

FloatOne == Float(FALSE, BigOf(1), 0)

\* The float64 quotient num / den of two small integers, den > 0: the
\* nearest float64 to the rational.
Float64Quot(num, den) ==
  IF num = 0 THEN FloatZero
  ELSE LET n == IF num < 0 THEN -num ELSE num
           e0 == MantissaBits - BitLen(n) + BitLen(den)
           q0 == BigDivSmall(BigShl(BigOf(n), e0), den).q
           scale == IF BigBitLen(q0) > MantissaBits THEN e0 - 1 ELSE e0
           d == BigDivSmall(BigShl(BigOf(n), scale), den)
       IN Float(num < 0, RoundNearestEven(d.q, d.r, den), scale)

\* float64(n) * f for an integer 0 <= n < 2^15: the exact product rounded
\* to 53 bits.
Float64MulInt(n, f) ==
  LET x == BigMulSmall(f.sig, n)
      s == BigBitLen(x) - MantissaBits
  IN IF s <= 0 THEN Float(f.neg, x, f.scale)
     ELSE LET d == BigDivSmall(x, Pow2(s))
          IN Float(f.neg, RoundNearestEven(d.q, d.r, Pow2(s)), f.scale - s)

\* ratio < 0
FloatNegative(f) == f.neg /\ f.sig # <<>>

FloatAboveOneNever(f) == FALSE

\* ratio > 1
FloatAboveOne(f) ==
  /\ ~f.neg
  /\ BigShr(f.sig, f.scale) # <<>>
  /\ f.sig # BigShl(BigOf(1), f.scale)

\* int64(f) for 0 <= f < 2^30: the fraction is dropped
Int64OfFloat(f) ==
  IF f.scale >= 0 THEN BigToInt(BigShr(f.sig, f.scale))
  ELSE BigToInt(BigShl(f.sig, -f.scale))

pieceInfo(length, pieceSize, beginPiece, endPiece) ==
  [length |-> length, pieceSize |-> pieceSize,
   beginPiece |-> beginPiece, endPiece |-> endPiece]

\* offset := int64(float64(p.length-1) * ratio)
OffsetRounded(length, ratio) == Int64OfFloat(Float64MulInt(length - 1, ratio))

\* pieceInfo.startPieceForRatio: <<start, ok>>
startPieceForRatio(p, ratio) ==
  IF p.length <= 0 \/ p.pieceSize <= 0 \/ p.endPiece < p.beginPiece THEN <<0, FALSE>>
  ELSE LET r0 == IF FloatNegative(ratio) THEN FloatZero ELSE ratio
           r1 == IF FloatAboveOne(r0) THEN FloatOne ELSE r0
           offset0 == OffsetRounded(p.length, r1)
           offset == IF offset0 < 0 THEN 0 ELSE offset0
           pieceOffset == offset \div p.pieceSize
           start0 == p.beginPiece + pieceOffset
           start1 == IF start0 < p.beginPiece THEN p.beginPiece ELSE start0
           start == IF start1 > p.endPiece THEN p.endPiece ELSE start1
       IN <<start, TRUE>>

(***************************************************************************)
(* transmission.Client: the piece-focus negotiator.  An error is its       *)
(* message; strings.Contains on the lower-cased message is a lookup of the *)
(* words the message holds.                                                *)
(***************************************************************************)
streamingFocusUnknown == "Unknown"
streamingFocusAdvanced == "Advanced"
streamingFocusBasic == "Basic"

Goroutines == 1..MaxFocusInFlight

\* (id, fileIndex) pairs the callers focus on
Targets == {<<1, 11>>, <<11, 1>>}

\* positionRatio of the callers, as currentTime and duration
FocusRatios == {<<0, 1>>, <<99, 100>>}

SessionTokens == {"s1", "s2"}

NilErr == [text |-> "nil"]

Err(text) == [text |-> text]

\* Messages the backend sends in an error body or a result field
BackendTexts == {"busy", "unknown argument"}

\* The words of isUnsupportedFocusError and isPieceInfoUnsupported that the
\* lower-cased message "Transmission error: <text>" (or the client's own
\* message) holds.
WordsIn(text) ==
  CASE text = "unknown argument" -> {"unknown", "argument"}
    [] text = "unknown torrent" -> {"unknown"}
    [] text = "invalid priorityHigh" -> {"priorityhigh"}
    [] text = "piece boundaries are unavailable" -> {"piece boundaries are unavailable"}
    [] OTHER -> {}

Contains(err, word) == word \in WordsIn(err.text)

isUnsupportedFocusErrorNever(err) == FALSE

isUnsupportedFocusErrorAny(err) == err # NilErr

isUnsupportedFocusErrorFieldOnly(err) ==
  \/ Contains(err, "sequentialdownloadfrompiece")
  \/ Contains(err, "sequential_download_from_piece")
  \/ Contains(err, "priorityhigh") \/ Contains(err, "priority_high")

isUnsupportedFocusError(err) ==
  IF Contains(err, "sequentialdownloadfrompiece")
       \/ Contains(err, "sequential_download_from_piece") THEN TRUE
  ELSE IF Contains(err, "priorityhigh") \/ Contains(err, "priority_high") THEN TRUE
  ELSE Contains(err, "unknown") /\ Contains(err, "argument")

isPieceInfoUnsupported(err) == Contains(err, "piece boundaries are unavailable")

focusKeyNoSeparator(id, fileIndex) == FormatInt(id) \o FormatInt(fileIndex)

\* key := fmt.Sprintf("%d:%d", id, fileIndex)
focusKey(id, fileIndex) == FormatInt(id) \o <<":">> \o FormatInt(fileIndex)

sameFocusedPiece(c, id, fileIndex, piece) ==
  LET key == focusKey(id, fileIndex)
  IN key \in DOMAIN c.lastPiece /\ c.lastPiece[key] = piece

rememberPiece(c, id, fileIndex, piece) ==
  [c EXCEPT !.lastPiece = (focusKey(id, fileIndex) :> piece) @@ @]

\* downgradedBy is history: the request whose failure last set the mode to
\* Basic ("get" or "advSnake"), "none" before.  accepted is history too: for
\* each focus key the focus request the backend accepted last, <<"basic", 0>>
\* or <<"advanced", piece>>.
NewClient ==
  [focusMode |-> streamingFocusUnknown, lastPiece |-> <<>>, sessionID |-> "",
   downgradedBy |-> "none", accepted |-> <<>>]

\* The backend has accepted the focus request f.form of call f.
Accepted(c, f) ==
  IF f.form = "get" THEN c
  ELSE [c EXCEPT !.accepted =
          (focusKey(f.id, f.fileIndex) :>
             IF f.form \in {"advCamel", "advSnake"} THEN <<"advanced", f.piece>>
             ELSE <<"basic", 0>>) @@ @]

\* What a torrent-get answer holds for the file: no torrent, too few files,
\* no piece boundaries, or the layout.
PiecePayloads ==
  {[kind |-> k, p |-> pieceInfo(0, 0, 0, 0)] : k \in {"noTorrent", "noFile", "noBounds"}}
    \cup {[kind |-> "info", p |-> pieceInfo(1000, ps, 5, 14)] : ps \in {0, 100}}

NoPayload == [kind |-> "none", p |-> pieceInfo(0, 0, 0, 0)]

\* One HTTP answer of the backend
Answer(kind, token, text, payload) ==
  [kind |-> kind, token |-> token, text |-> text, payload |-> payload]

Answers(form) ==
  {Answer("conflict", t, "", NoPayload) : t \in SessionTokens \cup {""}}
    \cup {Answer("error", "", text, NoPayload) : text \in BackendTexts}
    \cup {Answer("success", "", "", pl) :
            pl \in IF form = "get" THEN PiecePayloads ELSE {NoPayload}}

moreAttemptsThree(attempt) == attempt < 3

\* for attempt := 0; attempt < 2; attempt++
moreAttempts(attempt) == attempt < 2

NoRPC == [form |-> "none", tries |-> <<>>, out |-> NilErr]

IdleCall == [pc |-> "idle"]

(***************************************************************************)
(* Init: NewService on an empty output tree.                               *)
(***************************************************************************)
Init ==
  /\ converter = [HLSVersion |-> V4, MP4Version |-> V4]
  /\ videos = [r \in Resources |-> [Size |-> 700, ModifiedAt |-> 0]]
  /\ hlsDir = [r \in Resources |-> EmptyHLS]
  /\ mp4Dir = [r \in Resources |-> EmptyMP4]
  /\ jobs = <<>>
  /\ mp4Slots = 0
  /\ workers = EmptyBag
  /\ calls = EmptyBag
  /\ ret = NoRet
  /\ prewarmQueue = <<>>
  /\ prewarmQueued = {}
  /\ prewarmObserved = <<>>
  /\ pw = IdlePw
  /\ now = 0
  /\ nCalls = 0
  /\ nRestarts = 0
  /\ nScans = 0
  /\ offered = 0
  /\ gr = NoReader
  /\ input = [size |-> 0, grewAt |-> 0]
  /\ ctxDone = FALSE
  /\ clock = 0
  /\ http = [pc |-> "idle"]
  /\ focus = [pc |-> "idle"]
  /\ client = NewClient
  /\ fcalls = [g \in Goroutines |-> IdleCall]
  /\ nFocus = 0
  /\ svc = [pc |-> "idle"]

(***************************************************************************)
(* Handlers.  Enter is the first segment of StartHLS, StartMP4, HLSStatus   *)
(* and MP4Status: resolve the path, check the extension (StartMP4), probe.  *)
(***************************************************************************)
Probe(op, rel) ==
  IF KindOf(op) = JobHLS
    THEN hlsReady(hlsDir[rel], converter.HLSVersion)
    ELSE mp4Ready(mp4Dir[rel], converter.MP4Version)

ProbeSegments(op, rel) ==
  IF KindOf(op) = JobHLS THEN hlsSegments(hlsDir[rel], converter.HLSVersion) ELSE 0

Enter(op, rel, by) ==
  LET f == Frame(op, rel, by, FALSE, 0) IN
  IF rel \notin DOMAIN videos
    THEN /\ ret' = Deliver(f, ZeroStatus, "not found")
         /\ pw' = pwAfter(f, ZeroStatus, "not found")
         /\ calls' = calls
  ELSE IF op = "StartMP4" /\ Ext(rel) = ".mp4"
    THEN /\ ret' = Deliver(f, ZeroStatus, "unsupported file type")
         /\ pw' = pwAfter(f, ZeroStatus, "unsupported file type")
         /\ calls' = calls
  ELSE /\ calls' = BagAdd(calls, Frame(op, rel, by, Probe(op, rel), ProbeSegments(op, rel)))
       /\ ret' = NoRet
       /\ pw' = IF by = "prewarm" THEN [pc |-> "call", rel |-> rel] ELSE pw

Request(op, rel) ==
  /\ nCalls < MaxCalls
  /\ InFlight < MaxInFlight
  /\ nCalls' = nCalls + 1
  /\ Enter(op, rel, "user")
  /\ UNCHANGED <<aside, converter, videos, disk, jobs, mp4Slots, workers,
                 prewarmQueue, prewarmQueued, prewarmObserved, now, nRestarts, nScans>>

\* A call ends: its frame goes and its response is delivered.
Return(f, status) ==
  /\ calls' = BagDel(calls, f)
  /\ ret' = Deliver(f, status, "")
  /\ pw' = pwAfter(f, status, "")

StartCheckNoProbe(f) ==
  LET key == jobKey(KindOf(f.op), f.rel) IN
  /\ f.pc = "registry" /\ IsKickoff(f.op)
  /\ IF IsRunning(jobs, key)
       THEN Return(f, JobStatus(StateProcessing, f.ready, TRUE, f.segments, "",
                                IF f.op = "StartMP4" THEN RegStatus(jobs, key).progress ELSE 0))
     ELSE /\ calls' = BagAdd(BagDel(calls, f), [f EXCEPT !.pc = "prepare"])
          /\ ret' = NoRet
          /\ pw' = pw
  /\ UNCHANGED <<aside, converter, videos, disk, jobs, mp4Slots, workers,
                 prewarmQueue, prewarmQueued, prewarmObserved, now,
                 nCalls, nRestarts, nScans>>

\* StartHLS / StartMP4 from IsRunning to the ready test.
StartCheck(f) ==
  LET key == jobKey(KindOf(f.op), f.rel) IN
  /\ f.pc = "registry" /\ IsKickoff(f.op)
  /\ IF IsRunning(jobs, key)
       THEN Return(f, JobStatus(StateProcessing, f.ready, TRUE, f.segments, "",
                                IF f.op = "StartMP4" THEN RegStatus(jobs, key).progress ELSE 0))
     ELSE IF f.ready
       THEN Return(f, JobStatus(StateReady, TRUE, FALSE, f.segments, "", 0))
     ELSE /\ calls' = BagAdd(BagDel(calls, f), [f EXCEPT !.pc = "prepare"])
          /\ ret' = NoRet
          /\ pw' = pw
  /\ UNCHANGED <<aside, converter, videos, disk, jobs, mp4Slots, workers,
                 prewarmQueue, prewarmQueued, prewarmObserved, now,
                 nCalls, nRestarts, nScans>>

StartPrepare(f) ==
  /\ f.pc = "prepare"
  /\ IF f.op = "StartHLS"
       THEN /\ hlsDir' = [hlsDir EXCEPT ![f.rel] = prepareHLSOutput(@, converter.HLSVersion)]
            /\ mp4Dir' = mp4Dir
       ELSE /\ mp4Dir' = [mp4Dir EXCEPT ![f.rel] = prepareMP4Output(@)]
            /\ hlsDir' = hlsDir
  /\ calls' = BagAdd(BagDel(calls, f), [f EXCEPT !.pc = "start"])
  /\ ret' = NoRet
  /\ UNCHANGED <<aside, converter, videos, jobs, mp4Slots, workers, prewarmVars,
                 nCalls, nRestarts>>

\* StartLaunch with the gate slot taken before the go statement
StartLaunchHoldingSlot(f) ==
  LET kind == KindOf(f.op) IN
  /\ f.pc = "start"
  /\ kind = JobMP4 => mp4Slots < defaultMP4Concurrency
  /\ jobs' = RegStart(jobs, jobKey(kind, f.rel))
  /\ workers' = BagAdd(workers, Worker(kind, f.rel, IF kind = JobHLS THEN "mkdir" ELSE "acquire"))
  /\ Return(f, JobStatus(StateProcessing, FALSE, TRUE, f.segments, "", 0))
  /\ UNCHANGED <<aside, converter, videos, disk, mp4Slots,
                 prewarmQueue, prewarmQueued, prewarmObserved, now,
                 nCalls, nRestarts, nScans>>

\* jobs.Start, the go statement and the Processing response.
StartLaunch(f) ==
  LET kind == KindOf(f.op) IN
  /\ f.pc = "start"
  /\ jobs' = RegStart(jobs, jobKey(kind, f.rel))
  /\ workers' = BagAdd(workers, Worker(kind, f.rel, IF kind = JobHLS THEN "mkdir" ELSE "acquire"))
  /\ Return(f, JobStatus(StateProcessing, FALSE, TRUE, f.segments, "", 0))
  /\ UNCHANGED <<aside, converter, videos, disk, mp4Slots,
                 prewarmQueue, prewarmQueued, prewarmObserved, now,
                 nCalls, nRestarts, nScans>>

StatusResultRegistryOnly(op, st, ready, segments) ==
  IF st.state = StateFailed
    THEN JobStatus(StateFailed, FALSE, FALSE, 0, st.err, st.progress)
  ELSE IF st.state = StateProcessing
    THEN JobStatus(StateProcessing, ready, TRUE, segments, "", st.progress)
  ELSE IF st.state = StateReady
    THEN JobStatus(StateReady, TRUE, FALSE, segments, "", IF op = "MP4Status" THEN 100 ELSE 0)
  ELSE JobStatus(StateIdle, FALSE, FALSE, segments, "", IF op = "MP4Status" THEN st.progress ELSE 0)

\* StatusResult answering Ready for a registry entry in state Ready as well
StatusResultTrustingRegistry(op, st, ready, segments) ==
  IF st.state = StateFailed
    THEN JobStatus(StateFailed, FALSE, FALSE, 0, st.err, st.progress)
  ELSE IF st.state = StateProcessing
    THEN JobStatus(StateProcessing, ready, TRUE, segments, "", st.progress)
  ELSE IF ready \/ st.state = StateReady
    THEN JobStatus(StateReady, TRUE, FALSE, segments, "", IF op = "MP4Status" THEN 100 ELSE 0)
  ELSE JobStatus(StateIdle, FALSE, FALSE, segments, "", IF op = "MP4Status" THEN st.progress ELSE 0)

\* HLSStatus / MP4Status from jobs.Status to the response.
StatusResult(op, st, ready, segments) ==
  IF st.state = StateFailed
    THEN JobStatus(StateFailed, FALSE, FALSE, 0, st.err, st.progress)
  ELSE IF st.state = StateProcessing
    THEN JobStatus(StateProcessing, ready, TRUE, segments, "", st.progress)
  ELSE IF ready
    THEN JobStatus(StateReady, TRUE, FALSE, segments, "", IF op = "MP4Status" THEN 100 ELSE 0)
  ELSE JobStatus(StateIdle, FALSE, FALSE, segments, "", IF op = "MP4Status" THEN st.progress ELSE 0)

StatusMarking(f) ==
  LET key == jobKey(KindOf(f.op), f.rel) IN
  /\ f.pc = "registry" /\ ~IsKickoff(f.op)
  /\ Return(f, StatusResult(f.op, RegStatus(jobs, key), f.ready, f.segments))
  /\ jobs' = IF f.ready /\ ~IsRunning(jobs, key) THEN RegReady(jobs, key) ELSE jobs
  /\ UNCHANGED <<aside, converter, videos, disk, mp4Slots, workers,
                 prewarmQueue, prewarmQueued, prewarmObserved, now,
                 nCalls, nRestarts, nScans>>

Status(f) ==
  /\ f.pc = "registry" /\ ~IsKickoff(f.op)
  /\ Return(f, StatusResult(f.op, RegStatus(jobs, jobKey(KindOf(f.op), f.rel)), f.ready, f.segments))
  /\ UNCHANGED <<aside, converter, videos, disk, jobs, mp4Slots, workers,
                 prewarmQueue, prewarmQueued, prewarmObserved, now,
                 nCalls, nRestarts, nScans>>

(***************************************************************************)
(* The HLS conversion goroutine (StartHLS, the go func) around the black    *)
(* box ConvertHLS / ConvertHLSFollow.  ffmpeg writes one segment at a time  *)
(* and lists it in the playlist; when it exits with success the playlist    *)
(* is final (`ended`).  It cannot write into a directory that is gone.      *)
(***************************************************************************)
Step(w, w2) == workers' = BagAdd(BagDel(workers, w), w2)

\* Converter.ConvertHLS: os.MkdirAll(outputDir), then ffmpeg runs.
HLSMkdir(w) ==
  /\ w.kind = JobHLS /\ w.pc = "mkdir"
  /\ hlsDir' = [hlsDir EXCEPT ![w.rel].dir = TRUE]
  /\ Step(w, [w EXCEPT !.pc = "run"])
  /\ ret' = NoRet
  /\ UNCHANGED <<aside, converter, videos, mp4Dir, jobs, mp4Slots, calls, prewarmVars,
                 nCalls, nRestarts>>

HLSEmit(w) ==
  /\ w.kind = JobHLS /\ w.pc = "run"
  /\ hlsDir[w.rel].dir
  /\ w.last < MaxSegments
  /\ hlsDir' = [hlsDir EXCEPT ![w.rel].segments = @ + 1, ![w.rel].playlist = TRUE]
  /\ Step(w, [w EXCEPT !.last = @ + 1])
  /\ ret' = NoRet
  /\ UNCHANGED <<aside, converter, videos, mp4Dir, jobs, mp4Slots, calls, prewarmVars,
                 nCalls, nRestarts>>

\* ffmpeg exits 0: the converter returns nil.
HLSFinish(w) ==
  /\ w.kind = JobHLS /\ w.pc = "run"
  /\ hlsDir[w.rel].dir
  /\ w.last > 0
  /\ hlsDir' = [hlsDir EXCEPT ![w.rel].playlist = TRUE, ![w.rel].ended = TRUE]
  /\ Step(w, [w EXCEPT !.pc = "ready"])
  /\ ret' = NoRet
  /\ UNCHANGED <<aside, converter, videos, mp4Dir, jobs, mp4Slots, calls, prewarmVars,
                 nCalls, nRestarts>>

\* ffmpeg exits with an error; the goroutine removes the output directory.
HLSAbort(w, e) ==
  /\ w.kind = JobHLS /\ w.pc = "run"
  /\ hlsDir' = [hlsDir EXCEPT ![w.rel] = EmptyHLS]
  /\ Step(w, [w EXCEPT !.pc = "fail", !.err = e])
  /\ ret' = NoRet
  /\ UNCHANGED <<aside, converter, videos, mp4Dir, jobs, mp4Slots, calls, prewarmVars,
                 nCalls, nRestarts>>

\* s.jobs.Ready(jobKey) / s.jobs.Fail(jobKey, err); the HLS goroutine ends.
HLSDone(w) ==
  /\ w.kind = JobHLS /\ w.pc \in {"ready", "fail"}
  /\ jobs' = IF w.pc = "ready"
               THEN RegReady(jobs, jobKey(JobHLS, w.rel))
               ELSE RegFail(jobs, jobKey(JobHLS, w.rel), w.err)
  /\ workers' = BagDel(workers, w)
  /\ ret' = NoRet
  /\ UNCHANGED <<aside, converter, videos, disk, mp4Slots, calls, prewarmVars,
                 nCalls, nRestarts>>

(***************************************************************************)
(* The MP4 conversion goroutine (StartMP4, the go func) around              *)
(* Converter.ConvertMP4WithProgress, which writes outputPath + ".tmp.mp4"   *)
(* and renames it onto outputPath after ffmpeg succeeded.  The tmp file is  *)
(* touched by the holder of a gate slot only.                               *)
(***************************************************************************)
SlotFreeAlways == TRUE

SlotFree == mp4Slots < defaultMP4Concurrency

\* s.mp4Slots <- struct{}{}; the converter removes and recreates the tmp file.
MP4Acquire(w) ==
  /\ w.kind = JobMP4 /\ w.pc = "acquire"
  /\ SlotFree
  /\ mp4Slots' = mp4Slots + 1
  /\ mp4Dir' = [mp4Dir EXCEPT ![w.rel].tmp = TRUE]
  /\ Step(w, [w EXCEPT !.pc = "run"])
  /\ ret' = NoRet
  /\ UNCHANGED <<aside, converter, videos, hlsDir, jobs, calls, prewarmVars, nCalls, nRestarts>>

\* percent := int(ms / totalMs * 100), capped at 99
Percent(raw) == IF raw > 99 THEN 99 ELSE raw

\* An out_time_ms line: onProgress(percent) when percent > lastProgress.
MP4Progress(w, raw) ==
  /\ w.kind = JobMP4 /\ w.pc = "run"
  /\ Percent(raw) > w.last
  /\ jobs' = RegProgress(jobs, jobKey(JobMP4, w.rel), Percent(raw))
  /\ Step(w, [w EXCEPT !.last = Percent(raw)])
  /\ ret' = NoRet
  /\ UNCHANGED <<aside, converter, videos, disk, mp4Slots, calls, prewarmVars, nCalls, nRestarts>>

\* cmd.Wait fails: the converter removes the tmp file and returns the error;
\* the goroutine removes the output and the marker.
MP4Abort(w, e) ==
  /\ w.kind = JobMP4 /\ w.pc = "run"
  /\ mp4Dir' = [mp4Dir EXCEPT ![w.rel] = EmptyMP4]
  /\ Step(w, [w EXCEPT !.pc = "fail", !.err = e])
  /\ ret' = NoRet
  /\ UNCHANGED <<aside, converter, videos, hlsDir, jobs, mp4Slots, calls, prewarmVars,
                 nCalls, nRestarts>>

\* cmd.Wait succeeds: onProgress(100).
MP4Exit(w) ==
  /\ w.kind = JobMP4 /\ w.pc = "run"
  /\ jobs' = RegProgress(jobs, jobKey(JobMP4, w.rel), 100)
  /\ Step(w, [w EXCEPT !.pc = "rename"])
  /\ ret' = NoRet
  /\ UNCHANGED <<aside, converter, videos, disk, mp4Slots, calls, prewarmVars, nCalls, nRestarts>>

\* os.Remove(outputPath); os.Rename(tmpPath, outputPath).  On success the
\* goroutine writes the marker; when the rename fails it removes the output and
\* the marker.
MP4Rename(w, size) ==
  /\ w.kind = JobMP4 /\ w.pc = "rename"
  /\ IF mp4Dir[w.rel].tmp
       THEN /\ mp4Dir' = [mp4Dir EXCEPT ![w.rel] =
                            [marker |-> converter.MP4Version,
                             output |-> [exists |-> TRUE, size |-> size],
                             tmp |-> FALSE]]
            /\ Step(w, [w EXCEPT !.pc = "ready"])
       ELSE /\ mp4Dir' = [mp4Dir EXCEPT ![w.rel] = EmptyMP4]
            /\ Step(w, [w EXCEPT !.pc = "fail", !.err = "rename: no such file or directory"])
  /\ ret' = NoRet
  /\ UNCHANGED <<aside, converter, videos, hlsDir, jobs, mp4Slots, calls, prewarmVars,
                 nCalls, nRestarts>>

\* MP4Done with a failure branch that returns without s.jobs.Fail
MP4DoneSkipFail(w) ==
  /\ w.kind = JobMP4 /\ w.pc \in {"ready", "fail"}
  /\ jobs' = IF w.pc = "ready" THEN RegReady(jobs, jobKey(JobMP4, w.rel)) ELSE jobs
  /\ Step(w, [w EXCEPT !.pc = "release"])
  /\ ret' = NoRet
  /\ UNCHANGED <<aside, converter, videos, disk, mp4Slots, calls, prewarmVars, nCalls, nRestarts>>

\* s.jobs.Ready(jobKey) / s.jobs.Fail(jobKey, err)
MP4Done(w) ==
  /\ w.kind = JobMP4 /\ w.pc \in {"ready", "fail"}
  /\ jobs' = IF w.pc = "ready"
               THEN RegReady(jobs, jobKey(JobMP4, w.rel))
               ELSE RegFail(jobs, jobKey(JobMP4, w.rel), w.err)
  /\ Step(w, [w EXCEPT !.pc = "release"])
  /\ ret' = NoRet
  /\ UNCHANGED <<aside, converter, videos, disk, mp4Slots, calls, prewarmVars, nCalls, nRestarts>>

\* MP4Release as a release on the success path only
MP4ReleaseOnSuccess(w) ==
  /\ w.kind = JobMP4 /\ w.pc = "release"
  /\ mp4Slots' = IF w.err = "" THEN mp4Slots - 1 ELSE mp4Slots
  /\ workers' = BagDel(workers, w)
  /\ ret' = NoRet
  /\ UNCHANGED <<aside, converter, videos, disk, jobs, calls, prewarmVars, nCalls, nRestarts>>

\* defer func() { <-s.mp4Slots }()
MP4Release(w) ==
  /\ w.kind = JobMP4 /\ w.pc = "release"
  /\ mp4Slots' = mp4Slots - 1
  /\ workers' = BagDel(workers, w)
  /\ ret' = NoRet
  /\ UNCHANGED <<aside, converter, videos, disk, jobs, calls, prewarmVars, nCalls, nRestarts>>

(***************************************************************************)
(* The process dies and is started again (main): every goroutine and the    *)
(* whole Service are gone, the disk stays, and the new binary may carry     *)
(* other marker versions.                                                   *)
(***************************************************************************)
Restart(hv, mv) ==
  /\ nRestarts < MaxRestarts
  /\ nRestarts' = nRestarts + 1
  /\ converter' = [HLSVersion |-> hv, MP4Version |-> mv]
  /\ jobs' = <<>>
  /\ mp4Slots' = 0
  /\ workers' = EmptyBag
  /\ calls' = EmptyBag
  /\ ret' = NoRet
  /\ prewarmQueue' = <<>>
  /\ prewarmQueued' = {}
  /\ prewarmObserved' = <<>>
  /\ pw' = IdlePw
  /\ UNCHANGED <<aside, videos, disk, now, nCalls, nScans>>

(***************************************************************************)
(* MP4 prewarm: the scanner (runMP4PrewarmScanner) and the worker           *)
(* (runMP4PrewarmWorker).  One scan is one action; the worker's StartMP4    *)
(* runs through the same segments as a user's, as a frame by "prewarm".     *)
(***************************************************************************)
VideoOrder == <<"a.mkv", "b.avi", "c.mp4">>

\* store.ListVideos()
ListVideos == SelectSeq(VideoOrder, LAMBDA r : r \in DOMAIN videos)

observeStabilityKeepFirstSeen(obs, relPath, size, modifiedAt, t) ==
  IF relPath \notin DOMAIN obs
    THEN LET next == [size |-> size, modifiedAt |-> modifiedAt, firstSeen |-> t]
         IN <<Put(obs, relPath, next), next, FALSE>>
    ELSE LET next == [obs[relPath] EXCEPT !.size = size, !.modifiedAt = modifiedAt]
         IN <<Put(obs, relPath, next), next, TRUE>>

\* Service.observeStability on the observation map obs: <<new map, obs, stable>>
observeStability(obs, relPath, size, modifiedAt, t) ==
  IF relPath \notin DOMAIN obs
     \/ obs[relPath].size # size
     \/ obs[relPath].modifiedAt # modifiedAt
    THEN LET next == [size |-> size, modifiedAt |-> modifiedAt, firstSeen |-> t]
         IN <<Put(obs, relPath, next), next, FALSE>>
    ELSE <<obs, obs[relPath], TRUE>>

enqueuePrewarmAlways(st, relPath) ==
  IF relPath \in st.queued THEN st
  ELSE [st EXCEPT !.queued = @ \cup {relPath}, !.queue = Append(@, relPath)]

\* Service.enqueuePrewarm on st = [obs, queued, queue]
enqueuePrewarm(st, relPath) ==
  IF relPath \in st.queued THEN st
  ELSE IF Len(st.queue) < prewarmQueueSize
    THEN [st EXCEPT !.queued = @ \cup {relPath}, !.queue = Append(@, relPath)]
  ELSE st

\* The body of the loop of enqueuePrewarmCandidates for one video.
ScanVideo(st, relPath, t) ==
  IF Ext(relPath) = ".mp4" THEN st
  ELSE IF mp4Ready(mp4Dir[relPath], converter.MP4Version) THEN st
  ELSE IF IsRunning(jobs, jobKey(JobMP4, relPath)) THEN st
  ELSE LET o == observeStability(st.obs, relPath, videos[relPath].Size,
                                 videos[relPath].ModifiedAt, t)
           st2 == [st EXCEPT !.obs = o[1]]
       IN IF ~o[3] \/ t - o[2].firstSeen < defaultPrewarmStableFor
            THEN st2
            ELSE enqueuePrewarm(st2, relPath)

RECURSIVE ScanVideos(_, _, _)
ScanVideos(st, list, t) ==
  IF list = <<>> THEN st ELSE ScanVideos(ScanVideo(st, Head(list), t), Tail(list), t)

gcPrewarmObservationsKeepMarkers(st, seen) ==
  [st EXCEPT !.obs = [r \in DOMAIN st.obs \cap seen |-> st.obs[r]]]

\* Service.gcPrewarmObservations
gcPrewarmObservations(st, seen) ==
  [st EXCEPT !.obs = [r \in DOMAIN st.obs \cap seen |-> st.obs[r]],
             !.queued = {r \in st.queued : r \in seen \/ r \notin DOMAIN st.obs}]

\* Service.enqueuePrewarmCandidates.  The first scan runs when the scanner starts,
\* every later one a scan interval after the one before.
ScanWithin(limit) ==
  LET t == IF nScans = 0 THEN now ELSE now + PrewarmInterval
      st == gcPrewarmObservations(
              ScanVideos([obs |-> prewarmObserved, queued |-> prewarmQueued,
                          queue |-> prewarmQueue], ListVideos, t),
              DOMAIN videos)
  IN /\ nScans < limit
     /\ nScans' = nScans + 1
     /\ now' = t
     /\ prewarmObserved' = st.obs
     /\ prewarmQueued' = st.queued
     /\ prewarmQueue' = st.queue
     /\ ret' = NoRet
     /\ UNCHANGED <<aside, converter, videos, disk, jobs, mp4Slots, workers, calls, pw,
                    nCalls, nRestarts>>

Scan == ScanWithin(MaxScans)

\* case relPath := <-s.prewarmQueue
PwReceive ==
  /\ pw.pc = "idle"
  /\ prewarmQueue # <<>>
  /\ pw' = [pc |-> "dequeue", rel |-> Head(prewarmQueue)]
  /\ prewarmQueue' = Tail(prewarmQueue)
  /\ ret' = NoRet
  /\ UNCHANGED <<aside, converter, videos, disk, jobs, mp4Slots, workers, calls,
                 prewarmQueued, prewarmObserved, now, nCalls, nRestarts, nScans>>

\* s.dequeuePrewarm(relPath)
PwDequeue ==
  /\ pw.pc = "dequeue"
  /\ prewarmQueued' = prewarmQueued \ {pw.rel}
  /\ pw' = [pw EXCEPT !.pc = "enter"]
  /\ ret' = NoRet
  /\ UNCHANGED <<aside, converter, videos, disk, jobs, mp4Slots, workers, calls,
                 prewarmQueue, prewarmObserved, now, nCalls, nRestarts, nScans>>

\* s.StartMP4(context.Background(), relPath)
PwStartMP4 ==
  /\ pw.pc = "enter"
  /\ Enter("StartMP4", pw.rel, "prewarm")
  /\ UNCHANGED <<aside, converter, videos, disk, jobs, mp4Slots, workers,
                 prewarmQueue, prewarmQueued, prewarmObserved, now,
                 nCalls, nRestarts, nScans>>

PwWaitDoneNoPoll ==
  /\ pw.pc = "wait"
  /\ pw' = IdlePw
  /\ ret' = NoRet
  /\ UNCHANGED <<aside, converter, videos, disk, jobs, mp4Slots, workers, calls,
                 prewarmQueue, prewarmQueued, prewarmObserved, now,
                 nCalls, nRestarts, nScans>>

\* s.waitForJobCompletion: return once jobs.Status is not Processing.
PwWaitDone ==
  /\ pw.pc = "wait"
  /\ RegStatus(jobs, jobKey(JobMP4, pw.rel)).state # StateProcessing
  /\ pw' = IdlePw
  /\ ret' = NoRet
  /\ UNCHANGED <<aside, converter, videos, disk, jobs, mp4Slots, workers, calls,
                 prewarmQueue, prewarmQueued, prewarmObserved, now,
                 nCalls, nRestarts, nScans>>

\* A download or a copy rewrites a video of the library: its size may change
\* and its modification time moves forward.
Modify(r, size) ==
  /\ r \in DOMAIN videos
  /\ videos[r].ModifiedAt < MaxModifies
  /\ videos' = [videos EXCEPT ![r] = [Size |-> size, ModifiedAt |-> @.ModifiedAt + 1]]
  /\ ret' = NoRet
  /\ UNCHANGED <<aside, converter, disk, jobs, mp4Slots, workers, calls, prewarmVars,
                 nCalls, nRestarts>>

Next ==
  \/ \E r \in HLSRequests : Request("StartHLS", r)
  \/ \E r \in HLSRequests : Request("HLSStatus", r)
  \/ \E r \in MP4Requests : Request("StartMP4", r)
  \/ \E r \in MP4Requests : Request("MP4Status", r)
  \/ \E f \in BagToSet(calls) : StartCheck(f)
  \/ \E f \in BagToSet(calls) : StartPrepare(f)
  \/ \E f \in BagToSet(calls) : StartLaunch(f)
  \/ \E f \in BagToSet(calls) : Status(f)
  \/ \E w \in BagToSet(workers) : HLSMkdir(w)
  \/ \E w \in BagToSet(workers) : HLSEmit(w)
  \/ \E w \in BagToSet(workers) : HLSFinish(w)
  \/ \E w \in BagToSet(workers), e \in BackendErrors : HLSAbort(w, e)
  \/ \E w \in BagToSet(workers) : HLSDone(w)
  \/ \E w \in BagToSet(workers) : MP4Acquire(w)
  \/ \E w \in BagToSet(workers), raw \in RawPercents : MP4Progress(w, raw)
  \/ \E w \in BagToSet(workers), e \in BackendErrors : MP4Abort(w, e)
  \/ \E w \in BagToSet(workers) : MP4Exit(w)
  \/ \E w \in BagToSet(workers), size \in OutputSizes : MP4Rename(w, size)
  \/ \E w \in BagToSet(workers) : MP4Done(w)
  \/ \E w \in BagToSet(workers) : MP4Release(w)
  \/ \E hv \in Versions, mv \in Versions : Restart(hv, mv)

Spec == Init /\ [][Next]_vars

\* The service with the prewarm loops running, as main starts it.
NextPrewarm ==
  \/ Scan
  \/ PwReceive
  \/ PwDequeue
  \/ PwStartMP4
  \/ PwWaitDone
  \/ \E r \in MP4Requests : nCalls < MaxPrewarmCalls /\ Request("StartMP4", r)
  \/ \E r \in MP4Requests : nCalls < MaxPrewarmCalls /\ Request("MP4Status", r)
  \/ \E f \in BagToSet(calls) : StartCheck(f)
  \/ \E f \in BagToSet(calls) : StartPrepare(f)
  \/ \E f \in BagToSet(calls) : StartLaunch(f)
  \/ \E f \in BagToSet(calls) : Status(f)
  \/ \E w \in BagToSet(workers) : MP4Acquire(w)
  \/ \E w \in BagToSet(workers), raw \in RawPercents : MP4Progress(w, raw)
  \/ \E w \in BagToSet(workers), e \in BackendErrors : MP4Abort(w, e)
  \/ \E w \in BagToSet(workers) : MP4Exit(w)
  \/ \E w \in BagToSet(workers), size \in OutputSizes : MP4Rename(w, size)
  \/ \E w \in BagToSet(workers) : MP4Done(w)
  \/ \E w \in BagToSet(workers) : MP4Release(w)

SpecPrewarm == Init /\ [][NextPrewarm]_vars

\* The prewarm loops alone: no request from outside reaches the service.
NextAuto ==
  \/ Scan
  \/ PwReceive
  \/ PwDequeue
  \/ PwStartMP4
  \/ PwWaitDone
  \/ \E f \in BagToSet(calls) : StartCheck(f)
  \/ \E f \in BagToSet(calls) : StartPrepare(f)
  \/ \E f \in BagToSet(calls) : StartLaunch(f)
  \/ \E w \in BagToSet(workers) : MP4Acquire(w)
  \/ \E w \in BagToSet(workers), raw \in RawPercents : MP4Progress(w, raw)
  \/ \E w \in BagToSet(workers), e \in BackendErrors : MP4Abort(w, e)
  \/ \E w \in BagToSet(workers) : MP4Exit(w)
  \/ \E w \in BagToSet(workers), size \in OutputSizes : MP4Rename(w, size)
  \/ \E w \in BagToSet(workers) : MP4Done(w)
  \/ \E w \in BagToSet(workers) : MP4Release(w)

SpecAuto == Init /\ [][NextAuto]_vars

\* The prewarm loops over a library whose files change.
NextCatalog ==
  \/ NextAuto
  \/ \E r \in GrowingVideos, size \in VideoSizes : Modify(r, size)

SpecCatalog == Init /\ [][NextCatalog]_vars

(***************************************************************************)
(* The prewarm loops over a library that loses files and gets them back:   *)
(* a video is deleted or moved away, a download of the same name arrives.  *)
(***************************************************************************)
RemoveVideo(r) ==
  /\ r \in DOMAIN videos
  /\ videos' = [x \in DOMAIN videos \ {r} |-> videos[x]]
  /\ ret' = NoRet
  /\ UNCHANGED <<aside, converter, disk, jobs, mp4Slots, workers, calls, prewarmVars,
                 nCalls, nRestarts>>

RestoreVideo(r) ==
  /\ r \in Resources \ DOMAIN videos
  /\ videos' = Put(videos, r, [Size |-> 700, ModifiedAt |-> 0])
  /\ ret' = NoRet
  /\ UNCHANGED <<aside, converter, disk, jobs, mp4Slots, workers, calls, prewarmVars,
                 nCalls, nRestarts>>

NextLibrary ==
  \/ ScanWithin(MaxLibraryScans)
  \/ PwReceive
  \/ PwDequeue
  \/ PwStartMP4
  \/ PwWaitDone
  \/ \E f \in BagToSet(calls) : StartCheck(f)
  \/ \E f \in BagToSet(calls) : StartPrepare(f)
  \/ \E f \in BagToSet(calls) : StartLaunch(f)
  \/ \E w \in BagToSet(workers) : MP4Acquire(w)
  \/ \E w \in BagToSet(workers), e \in BackendErrors : MP4Abort(w, e)
  \/ \E w \in BagToSet(workers) : MP4Exit(w)
  \/ \E w \in BagToSet(workers), size \in OutputSizes : MP4Rename(w, size)
  \/ \E w \in BagToSet(workers) : MP4Done(w)
  \/ \E w \in BagToSet(workers) : MP4Release(w)
  \/ \E r \in Resources : RemoveVideo(r)
  \/ \E r \in Resources : RestoreVideo(r)

SpecLibrary == Init /\ [][NextLibrary]_vars

(***************************************************************************)
(* The running service under fair scheduling: the prewarm loops, one       *)
(* request from outside, and the conversion goroutines.  Every goroutine   *)
(* that can take its next step takes it, ffmpeg exits (with success or     *)
(* with an error), and a goroutine blocked on the gate gets a slot that    *)
(* keeps becoming free: the Go runtime serves the senders blocked on a     *)
(* channel in the order they arrived.                                      *)
(***************************************************************************)
NextLive ==
  \/ ScanWithin(MaxLiveScans)
  \/ PwReceive
  \/ PwDequeue
  \/ PwStartMP4
  \/ PwWaitDone
  \/ \E r \in MP4Requests : nCalls < MaxPrewarmCalls /\ Request("StartMP4", r)
  \/ \E r \in HLSRequests : nCalls < MaxPrewarmCalls /\ Request("StartHLS", r)
  \/ \E f \in BagToSet(calls) : StartCheck(f)
  \/ \E f \in BagToSet(calls) : StartPrepare(f)
  \/ \E f \in BagToSet(calls) : StartLaunch(f)
  \/ \E w \in BagToSet(workers) : MP4Acquire(w)
  \/ \E w \in BagToSet(workers), e \in BackendErrors : MP4Abort(w, e)
  \/ \E w \in BagToSet(workers) : MP4Exit(w)
  \/ \E w \in BagToSet(workers), size \in OutputSizes : MP4Rename(w, size)
  \/ \E w \in BagToSet(workers) : MP4Done(w)
  \/ \E w \in BagToSet(workers) : MP4Release(w)
  \/ \E w \in BagToSet(workers) : HLSMkdir(w)
  \/ \E w \in BagToSet(workers) : HLSEmit(w)
  \/ \E w \in BagToSet(workers) : HLSFinish(w)
  \/ \E w \in BagToSet(workers), e \in BackendErrors : HLSAbort(w, e)
  \/ \E w \in BagToSet(workers) : HLSDone(w)

\* The gate hands a slot to the goroutine of resource r.
GateGrant(r) == \E w \in BagToSet(workers) : w.rel = r /\ MP4Acquire(w)

\* The MP4 goroutine of resource r past the gate: ffmpeg exits, the rename,
\* the registry update, the release.
MP4Advance(r) ==
  \E w \in BagToSet(workers) :
    /\ w.rel = r
    /\ \/ MP4Exit(w)
       \/ \E e \in BackendErrors : MP4Abort(w, e)
       \/ \E size \in OutputSizes : MP4Rename(w, size)
       \/ MP4Done(w)
       \/ MP4Release(w)

\* The HLS goroutine of resource r: mkdir, ffmpeg exits, the registry update.
HLSAdvance(r) ==
  \E w \in BagToSet(workers) :
    /\ w.rel = r
    /\ \/ HLSMkdir(w)
       \/ HLSFinish(w)
       \/ \E e \in BackendErrors : HLSAbort(w, e)
       \/ HLSDone(w)

\* A kickoff in flight goes on to its response.
KickoffAdvance == \E f \in BagToSet(calls) : StartCheck(f) \/ StartPrepare(f) \/ StartLaunch(f)

\* The prewarm worker's loop.
PwAdvance == PwReceive \/ PwDequeue \/ PwStartMP4 \/ PwWaitDone

Fairness ==
  /\ \A r \in Resources : SF_vars(GateGrant(r))
  /\ \A r \in Resources : WF_vars(MP4Advance(r))
  /\ \A r \in Resources : WF_vars(HLSAdvance(r))
  /\ WF_vars(KickoffAdvance)
  /\ WF_vars(PwAdvance)

SpecLive == Init /\ [][NextLive]_vars /\ Fairness

(***************************************************************************)
(* One scan over a library larger than the queue, every video of it stable  *)
(* and in need of conversion, while the prewarm worker takes items off the  *)
(* queue; by the time the worker asks for a video it is gone again.         *)
(***************************************************************************)
VideoName(n) == "v" \o ToString(n)

\* s.enqueuePrewarm(relPath) for the next video of the scan.
QOffer ==
  LET st == enqueuePrewarm([obs |-> prewarmObserved, queued |-> prewarmQueued,
                            queue |-> prewarmQueue], VideoName(offered + 1))
  IN /\ offered < MaxOffered
     /\ offered' = offered + 1
     /\ prewarmQueued' = st.queued
     /\ prewarmQueue' = st.queue
     /\ ret' = NoRet
     /\ UNCHANGED <<converter, videos, disk, jobs, mp4Slots, workers, calls,
                    prewarmObserved, pw, now, nCalls, nRestarts, nScans, reader, http, focus,
                    negotiator, svc>>

NextQueue ==
  \/ QOffer
  \/ PwReceive
  \/ PwDequeue
  \/ PwStartMP4

SpecQueue == Init /\ [][NextQueue]_vars

(***************************************************************************)
(* A growReader at work: ffmpeg's stdin copy calls Read again as soon as a  *)
(* Read returned data; a writer appends to the file; the context may be     *)
(* cancelled; time passes only while the reader sleeps in its select.       *)
(***************************************************************************)
ReaderStep ==
  UNCHANGED <<converter, videos, disk, jobs, mp4Slots, workers, calls, ret,
              prewarmVars, nCalls, nRestarts, offered, http, focus, negotiator, svc>>

\* newGrowReader(ctx, path, 500*time.Millisecond, idleTimeout)
NewGrowReader(caller) ==
  /\ gr.pc = "closed"
  /\ gr' = [pc |-> "read", caller |-> caller, pos |-> 0, lastSize |-> input.size,
            lastGrow |-> clock, idleLimit |-> IdleTimeoutOf(caller),
            wake |-> 0, result |-> "none", n |-> 0]
  /\ UNCHANGED <<input, ctxDone, clock>>
  /\ ReaderStep

\* n, err := g.file.Read(p)
ReadFile ==
  /\ gr.pc = "read"
  /\ IF gr.pos < input.size
       THEN LET n == Min(BufLen, input.size - gr.pos)
            IN gr' = [gr EXCEPT !.pos = @ + n, !.lastGrow = clock,
                                !.result = "data", !.n = n]
       ELSE gr' = [gr EXCEPT !.pc = "stat"]
  /\ UNCHANGED <<input, ctxDone, clock>>
  /\ ReaderStep

\* err == io.EOF: g.file.Stat(), the size test, the idle test, the select
ReadStatNoZeroTest ==
  /\ gr.pc = "stat"
  /\ IF input.size > gr.lastSize
       THEN gr' = [gr EXCEPT !.pc = "read", !.lastSize = input.size]
     ELSE IF clock - gr.lastGrow >= gr.idleLimit
       THEN gr' = [gr EXCEPT !.pc = "done", !.result = "EOF", !.n = 0]
     ELSE gr' = [gr EXCEPT !.pc = "sleep", !.wake = clock + PollTicks]
  /\ UNCHANGED <<input, ctxDone, clock>>
  /\ ReaderStep

ReadStatEarly ==
  /\ gr.pc = "stat"
  /\ IF input.size > gr.lastSize
       THEN gr' = [gr EXCEPT !.pc = "read", !.lastSize = input.size]
     ELSE IF gr.idleLimit > 0 /\ clock - gr.lastGrow >= gr.idleLimit - PollTicks
       THEN gr' = [gr EXCEPT !.pc = "done", !.result = "EOF", !.n = 0]
     ELSE gr' = [gr EXCEPT !.pc = "sleep", !.wake = clock + PollTicks]
  /\ UNCHANGED <<input, ctxDone, clock>>
  /\ ReaderStep

ReadStat ==
  /\ gr.pc = "stat"
  /\ IF input.size > gr.lastSize
       THEN gr' = [gr EXCEPT !.pc = "read", !.lastSize = input.size]
     ELSE IF gr.idleLimit > 0 /\ clock - gr.lastGrow >= gr.idleLimit
       THEN gr' = [gr EXCEPT !.pc = "done", !.result = "EOF", !.n = 0]
     ELSE gr' = [gr EXCEPT !.pc = "sleep", !.wake = clock + PollTicks]
  /\ UNCHANGED <<input, ctxDone, clock>>
  /\ ReaderStep

\* case <-time.After(g.poll)
ReadWake ==
  /\ gr.pc = "sleep"
  /\ clock >= gr.wake
  /\ gr' = [gr EXCEPT !.pc = "read"]
  /\ UNCHANGED <<input, ctxDone, clock>>
  /\ ReaderStep

ReadCancelledAtPoll ==
  /\ gr.pc = "sleep"
  /\ ctxDone /\ clock >= gr.wake
  /\ gr' = [gr EXCEPT !.pc = "done", !.result = "cancelled", !.n = 0]
  /\ UNCHANGED <<input, ctxDone, clock>>
  /\ ReaderStep

\* case <-g.ctx.Done(): return 0, g.ctx.Err()
ReadCancelled ==
  /\ gr.pc = "sleep"
  /\ ctxDone
  /\ gr' = [gr EXCEPT !.pc = "done", !.result = "cancelled", !.n = 0]
  /\ UNCHANGED <<input, ctxDone, clock>>
  /\ ReaderStep

\* The download appends to the input file.
FileAppend ==
  /\ input.size < MaxFileSize
  /\ input' = [size |-> input.size + 1, grewAt |-> clock]
  /\ UNCHANGED <<gr, ctxDone, clock>>
  /\ ReaderStep

\* The request's context is cancelled.
CtxCancel ==
  /\ ~ctxDone
  /\ ctxDone' = TRUE
  /\ UNCHANGED <<gr, input, clock>>
  /\ ReaderStep

\* The reader has a step to take now: it is not blocked in its select.
ReaderDue == ENABLED (ReadFile \/ ReadStat \/ ReadWake \/ ReadCancelled)

\* Time passes while the reader is blocked (or closed, or done).
Tick ==
  /\ clock < MaxClock
  /\ ~ReaderDue
  /\ clock' = clock + 1
  /\ UNCHANGED <<gr, input, ctxDone>>
  /\ ReaderStep

NextReader ==
  \/ \E caller \in {"StreamMP4", "ConvertHLSFollow"} : NewGrowReader(caller)
  \/ ReadFile
  \/ ReadStat
  \/ ReadWake
  \/ ReadCancelled
  \/ FileAppend
  \/ CtxCancel
  \/ Tick

SpecReader == Init /\ [][NextReader]_vars

(***************************************************************************)
(* streamFile under requests: a client sends a Range header (or none) for  *)
(* a complete file; the handler answers.                                   *)
(***************************************************************************)
FileSizes == (0..MaxStreamSize) \cup {100}

RangeKinds == {"none", "open", "closed", "suffix"}

RangeEnds == (0..MaxRange) \cup {50, 200}

RangeStarts == ((-MaxNegative)..(-1)) \cup RangeEnds

\* The Range header a client writes: none, bytes=a-, bytes=a-b, bytes=-a
RangeHeader(kind, a, b) ==
  CASE kind = "none" -> <<>>
    [] kind = "open" -> BytesEq \o FormatInt(a) \o <<"-">>
    [] kind = "closed" -> BytesEq \o FormatInt(a) \o <<"-">> \o FormatInt(b)
    [] kind = "suffix" -> BytesEq \o <<"-">> \o FormatInt(a)

StreamStep ==
  UNCHANGED <<converter, videos, disk, jobs, mp4Slots, workers, calls, ret,
              prewarmVars, nCalls, nRestarts, offered, reader, focus, negotiator, svc>>

\* r.Header.Get("Range") and file.Stat() of one request
StreamRequest(fileSize, kind, a, b) ==
  /\ http.pc = "idle"
  /\ kind = "none" => (a = 0 /\ b = 0)
  /\ kind \in {"open", "suffix"} => b = 0
  /\ kind = "suffix" => a > 0
  /\ http' = [pc |-> "request", fileSize |-> fileSize, kind |-> kind,
              a |-> a, b |-> b, rangeHeader |-> RangeHeader(kind, a, b)]
  /\ StreamStep

StreamServe ==
  /\ http.pc = "request"
  /\ http' = [http EXCEPT !.pc = "response"]
                @@ [resp |-> streamFile(http.rangeHeader, http.fileSize)]
  /\ StreamStep

\* The handler returns; the next request is a fresh call.
StreamReturn ==
  /\ http.pc = "response"
  /\ http' = [pc |-> "idle"]
  /\ StreamStep

NextStream ==
  \/ /\ http.pc = "idle"
     /\ \E fileSize \in FileSizes, kind \in RangeKinds,
           a \in RangeStarts, b \in RangeEnds :
           StreamRequest(fileSize, kind, a, b)
  \/ StreamServe
  \/ StreamReturn

SpecStream == Init /\ [][NextStream]_vars

(***************************************************************************)
(* The job registry on its own: any caller, any order, any argument.       *)
(***************************************************************************)
RegistryKeys == {jobKey(JobMP4, "a.mkv"), jobKey(JobHLS, "a.mkv")}

ProgressValues == {-5, 0, 30, 70, 100, 150}

RegistryCall(op, key, value, j) ==
  /\ jobs' = j
  /\ ret' = [op |-> op, key |-> key, value |-> value]
  /\ UNCHANGED <<aside, converter, videos, disk, mp4Slots, workers, calls, prewarmVars,
                 nCalls, nRestarts>>

DoStart(key) == RegistryCall("Start", key, 0, RegStart(jobs, key))

DoProgress(key, value) == RegistryCall("Progress", key, value, RegProgress(jobs, key, value))

DoReady(key) == RegistryCall("Ready", key, 0, RegReady(jobs, key))

DoFail(key, e) == RegistryCall("Fail", key, 0, RegFail(jobs, key, e))

NextRegistry ==
  \/ \E k \in RegistryKeys : DoStart(k)
  \/ \E k \in RegistryKeys, v \in ProgressValues : DoProgress(k, v)
  \/ \E k \in RegistryKeys : DoReady(k)
  \/ \E k \in RegistryKeys, e \in BackendErrors : DoFail(k, e)

SpecRegistry == Init /\ [][NextRegistry]_vars

(***************************************************************************)
(* Properties.                                                             *)
(***************************************************************************)
\* The goroutines of one key that have not yet reported to the registry.
Running(kind, rel) ==
  {w \in BagToSet(workers) : w.kind = kind /\ w.rel = rel /\ w.pc # "release"}

Copies(S) == BagCardinality([w \in S |-> workers[w]])

\* C1: for every (kind, resource) key, under any interleaving of kickoffs, at
\* most one conversion goroutine for that key is running at a time.
C1_OneWorkerPerKey ==
  \A kind \in {JobHLS, JobMP4}, r \in Resources : Copies(Running(kind, r)) <= 1

\* The MP4 goroutines inside Converter.ConvertMP4WithProgress.
InBackend == {w \in BagToSet(workers) : w.kind = JobMP4 /\ w.pc \in {"run", "rename"}}

\* C2: the number of MP4 backend invocations in progress never exceeds the gate
\* size, and no more tokens than that are ever in the gate.
C2_GateBound ==
  /\ Copies(InBackend) <= defaultMP4Concurrency
  /\ mp4Slots <= defaultMP4Concurrency

\* C2 witness: one MP4 conversion is in the backend, the gate is full, and the
\* goroutine of another resource waits for a slot with its job Processing.
C2_Witness ==
  \E w1 \in InBackend, w2 \in BagToSet(workers) :
    /\ w2.kind = JobMP4 /\ w2.pc = "acquire" /\ w2.rel # w1.rel
    /\ mp4Slots = defaultMP4Concurrency
    /\ IsRunning(jobs, jobKey(JobMP4, w2.rel))

\* C3: the readiness probe reports ready only for an artifact whose conversion
\* completed: an HLS playlist that ffmpeg finished, an MP4 output in place.
C3_ProbeOnlyComplete ==
  \A r \in Resources :
    /\ hlsReady(hlsDir[r], converter.HLSVersion) => hlsDir[r].ended
    /\ mp4Ready(mp4Dir[r], converter.MP4Version) => mp4Dir[r].output.exists

StatusOps == {"HLSStatus", "MP4Status"}

KickoffOps == {"StartHLS", "StartMP4"}

\* The registry key of the call whose response is in ret.
RetKey == jobKey(KindOf(ret.op), ret.rel)

\* C4: a status query reports a Failed or Processing registry entry as it is,
\* whatever the probe found; with no entry for the key it answers Ready exactly
\* when the probe found a valid artifact and Idle otherwise.
C4_StatusCombines ==
  (ret.op \in StatusOps /\ ret.err = "") =>
    LET st == RegStatus(jobs, RetKey) IN
    /\ st.state = StateFailed =>
         ret.status.State = StateFailed /\ ret.status.Error = st.err
    /\ st.state = StateProcessing =>
         ret.status.State = StateProcessing /\ ret.status.Processing
    /\ RetKey \notin DOMAIN jobs =>
         ret.status.State = (IF ret.ready THEN StateReady ELSE StateIdle)

\* C4 witness: after a restart the registry has no entry, the probe found the
\* artifact on disk and the status query answered Ready.
C4_Witness ==
  /\ ret.op \in StatusOps /\ ret.err = ""
  /\ nRestarts > 0
  /\ RetKey \notin DOMAIN jobs
  /\ ret.ready /\ ret.status.State = StateReady

\* C5 (as stated): a kickoff whose probe found a valid artifact returns Ready,
\* whatever the registry holds for the key.
C5_ReadyWhateverRegistry ==
  (ret.op \in KickoffOps /\ ret.err = "" /\ ret.ready) => ret.status.State = StateReady

\* C5 (amended): a kickoff whose probe found a valid artifact returns at once,
\* removes and writes no file, changes no registry entry and starts no
\* goroutine; it answers Ready unless the registry reports the key Processing,
\* and then it answers Processing with Ready set.
C5_ReadyKickoffFrame ==
  /\ [](\A f \in BagToSet(calls) : (IsKickoff(f.op) /\ f.ready) => f.pc = "registry")
  /\ [][(ret'.op \in KickoffOps /\ ret'.err = "" /\ ret'.ready) =>
          /\ UNCHANGED <<disk, jobs, workers, mp4Slots>>
          /\ ret'.status.Ready
          /\ ret'.status.State =
               (IF IsRunning(jobs, jobKey(KindOf(ret'.op), ret'.rel))
                  THEN StateProcessing ELSE StateReady)]_vars

\* C5 witness: StartMP4 found a valid artifact and answered Ready while the
\* registry held a Ready entry for the key.
C5_Witness ==
  /\ ret.op = "StartMP4" /\ ret.err = "" /\ ret.ready
  /\ ret.status.State = StateReady
  /\ RetKey \in DOMAIN jobs

\* The goroutine w hands its outcome to the registry in this step.
Reports(w) ==
  /\ w \in BagToSet(workers)
  /\ w.pc = "fail"
  /\ CopiesIn(w, workers') < CopiesIn(w, workers)
  /\ nRestarts' = nRestarts

\* C6: when the backend of a started conversion failed, at the moment the
\* goroutine records the failure the marker and the output are gone, the probe
\* reports not ready, and the registry entry is Failed with the backend's
\* error text, which is what a status query then returns.
C6_FailureCleansUp ==
  [][\A w \in BagToSet(workers) : Reports(w) =>
       LET key == jobKey(w.kind, w.rel)
           op == IF w.kind = JobHLS THEN "HLSStatus" ELSE "MP4Status"
           st == StatusResult(op, RegStatus(jobs', key), Probe(op, w.rel)', 0)
       IN /\ jobs'[key].state = StateFailed
          /\ jobs'[key].err = w.err
          /\ ~Probe(op, w.rel)'
          /\ IF w.kind = JobHLS
               THEN hlsDir'[w.rel].marker = NoFile /\ ~hlsDir'[w.rel].playlist
               ELSE mp4Dir'[w.rel].marker = NoFile /\ ~mp4Dir'[w.rel].output.exists
          /\ st.State = StateFailed /\ st.Error = w.err]_vars

\* C7: once a job is Failed it stays Failed for as long as no request comes
\* from outside: the scanner and the prewarm worker never start it again.
C7_FailedStaysFailed ==
  [][\A k \in DOMAIN jobs :
       jobs[k].state = StateFailed => (k \in DOMAIN jobs' /\ jobs'[k].state = StateFailed)]_vars

\* The marker file is there and its trimmed content is not the version.
Stale(marker, version) == marker # NoFile /\ TrimSpace(marker) # version

StaleFor(kind, rel) ==
  IF kind = JobHLS
    THEN Stale(hlsDir[rel].marker, converter.HLSVersion)
    ELSE Stale(mp4Dir[rel].marker, converter.MP4Version)

\* The output files of the artifact are all there.
Complete(kind, rel) ==
  IF kind = JobHLS
    THEN hlsDir[rel].playlist /\ hlsDir[rel].segments > 0
    ELSE mp4Dir[rel].output.exists /\ mp4Dir[rel].output.size >= mp4ReadyMinBytes

\* The frame f moves on to position pc in this step.
Moved(f, pc) ==
  /\ CopiesIn(f, calls') < CopiesIn(f, calls)
  /\ CopiesIn([f EXCEPT !.pc = pc], calls') > CopiesIn([f EXCEPT !.pc = pc], calls)

\* The call of frame f returns in this step.
Returned(f) ==
  /\ CopiesIn(f, calls') < CopiesIn(f, calls)
  /\ ret'.op = f.op /\ ret'.rel = f.rel /\ ret'.by = f.by

NewWorkers(kind, rel) ==
  {w \in BagToSet(workers') : w.kind = kind /\ w.rel = rel
                               /\ CopiesIn(w, workers') > CopiesIn(w, workers)}

\* C8: an artifact whose marker differs from the converter's version is not
\* ready however complete its files are; a status query whose probe said not
\* ready never answers Ready; a kickoff that meets the stale marker goes on to
\* wipe the output, starts a goroutine and answers Processing.
C8_MarkerInvalidation ==
  /\ [](\A r \in Resources :
          /\ StaleFor(JobHLS, r) => ~hlsReady(hlsDir[r], converter.HLSVersion)
          /\ StaleFor(JobMP4, r) => ~mp4Ready(mp4Dir[r], converter.MP4Version))
  /\ []((ret.op \in StatusOps /\ ret.err = "" /\ ~ret.ready) =>
          ret.status.State # StateReady)
  /\ [][\A f \in BagToSet(calls) : IsKickoff(f.op) =>
          LET kind == KindOf(f.op) IN
          /\ (f.pc = "registry" /\ StaleFor(kind, f.rel)
               /\ CopiesIn(f, calls') < CopiesIn(f, calls) /\ nRestarts' = nRestarts)
                => (~f.ready /\ Moved(f, "prepare"))
          /\ (f.pc = "prepare" /\ Moved(f, "start"))
                => IF kind = JobHLS
                     THEN /\ ~hlsDir'[f.rel].playlist /\ hlsDir'[f.rel].segments = 0
                          /\ hlsDir'[f.rel].marker = converter.HLSVersion
                     ELSE /\ ~mp4Dir'[f.rel].output.exists
                          /\ mp4Dir'[f.rel].marker = NoFile
          /\ (f.pc = "start" /\ Returned(f))
                => /\ IsRunning(jobs', jobKey(kind, f.rel))
                   /\ NewWorkers(kind, f.rel) # {}
                   /\ ret'.status.State = StateProcessing]_vars

\* C8 witness: after an upgrade the files of an artifact are complete, its
\* marker is the old version, and a kickoff is about to wipe it.
C8_Witness ==
  \E f \in BagToSet(calls) :
    /\ IsKickoff(f.op) /\ f.pc = "prepare"
    /\ StaleFor(KindOf(f.op), f.rel)
    /\ Complete(KindOf(f.op), f.rel)

\* C9: whatever integers are passed to Progress, the stored progress of a job
\* is within 0..100, no Progress or Ready call lowers it, and Ready leaves it
\* at exactly 100.
C9_ProgressMonotone ==
  [][\A k \in DOMAIN jobs' :
       /\ jobs'[k].progress \in 0..100
       /\ (ret'.op \in {"Progress", "Ready"} /\ k \in DOMAIN jobs)
            => jobs'[k].progress >= jobs[k].progress
       /\ (ret'.op = "Ready" /\ ret'.key = k) => jobs'[k].progress = 100]_vars

\* C9 witness: Progress was called with a negative value on a job whose stored
\* progress is 70.
C9_Witness ==
  /\ ret.op = "Progress" /\ ret.value < 0
  /\ jobs[ret.key].progress = 70

\* A step of a status query: its call enters or its response is delivered.
StatusStep ==
  \/ ret'.op \in StatusOps
  \/ \E f \in BagToSet(calls') : ~IsKickoff(f.op) /\ CopiesIn(f, calls') > CopiesIn(f, calls)

\* C10: a status query changes no file, no registry entry, no prewarm map and
\* no goroutine, and for a resource that is Ready (valid artifact, no job
\* Processing or Failed) its result is the same record every time.
C10_StatusIdempotent ==
  [][StatusStep =>
       /\ UNCHANGED <<disk, jobs, prewarmQueue, prewarmQueued, prewarmObserved,
                      workers, mp4Slots, converter, videos>>
       /\ (ret'.op \in StatusOps /\ ret'.err = "" /\ ret'.ready
            /\ RegStatus(jobs, jobKey(KindOf(ret'.op), ret'.rel)).state
                 \notin {StateFailed, StateProcessing})
            => ret'.status = JobStatus(StateReady, TRUE, FALSE, ret'.segments, "",
                                       IF ret'.op = "MP4Status" THEN 100 ELSE 0)]_vars

\* C10 witness: MP4Status answered Ready for a resource whose job is Ready
\* while a second MP4Status for it, which read the same probe, is in flight.
C10_Witness ==
  /\ ret.op = "MP4Status" /\ ret.err = "" /\ ret.status.State = StateReady
  /\ RegStatus(jobs, RetKey).state = StateReady
  /\ \E f \in BagToSet(calls) : f.op = "MP4Status" /\ f.rel = ret.rel /\ f.ready

\* The resources the scanner puts into the queue in this step.
Enqueued == prewarmQueued' \ prewarmQueued

\* The resources a scan looks at: not .mp4, not ready, not running.
Candidates ==
  {r \in DOMAIN videos :
     /\ Ext(r) # ".mp4"
     /\ ~mp4Ready(mp4Dir[r], converter.MP4Version)
     /\ ~IsRunning(jobs, jobKey(JobMP4, r))}

\* The observation of r is of the (size, mtime) the file has now.
SameAsObserved(r) ==
  /\ r \in DOMAIN prewarmObserved
  /\ prewarmObserved[r].size = videos[r].Size
  /\ prewarmObserved[r].modifiedAt = videos[r].ModifiedAt

\* C11: the scanner enqueues a resource only when the scan before saw the same
\* (size, mtime) and that pair was first seen at least the dwell time ago; a
\* scan that finds a new pair sets first-seen to its own time and does not
\* enqueue; a scan that finds the same pair leaves first-seen alone.
C11_StabilityGate ==
  [][nScans' # nScans =>
       /\ \A r \in Enqueued :
            /\ r \in Candidates /\ SameAsObserved(r)
            /\ now' - prewarmObserved[r].firstSeen >= defaultPrewarmStableFor
       /\ \A r \in Candidates :
            IF SameAsObserved(r)
              THEN prewarmObserved'[r].firstSeen = prewarmObserved[r].firstSeen
              ELSE /\ prewarmObserved'[r].firstSeen = now'
                   /\ prewarmObserved'[r].size = videos[r].Size
                   /\ prewarmObserved'[r].modifiedAt = videos[r].ModifiedAt
                   /\ r \notin Enqueued]_vars

\* C11 witness: a.mkv was rewritten before every scan and is not queued after
\* the last one, while b.avi, left alone, was enqueued.
C11_Witness ==
  /\ nScans = MaxScans
  /\ videos["a.mkv"].ModifiedAt = MaxModifies
  /\ "a.mkv" \in DOMAIN prewarmObserved
  /\ prewarmObserved["a.mkv"].firstSeen = now
  /\ "a.mkv" \notin prewarmQueued
  /\ "b.avi" \in prewarmQueued

\* The prewarm has had r in its hands before: r is with the worker now, or
\* the worker's StartMP4 has started a job for it.
HandledBefore(r) ==
  \/ pw.pc # "idle" /\ pw.rel = r
  \/ jobKey(JobMP4, r) \in DOMAIN jobs

\* C12: a resource whose file does not change is put into the prewarm queue
\* once: no scan enqueues a resource that was enqueued before.
C12_EnqueuedOnce ==
  [][\A r \in Enqueued : ~HandledBefore(r)]_vars

\* The keys the registry reports Processing.
ProcessingKeys == {k \in DOMAIN jobs : jobs[k].state = StateProcessing}

\* C13: with the prewarm alone at work, at most one job is Processing, and
\* while one is the prewarm worker sits in waitForJobCompletion for that very
\* job: it takes nothing from the queue and starts nothing.
C13_PrewarmSerialized ==
  /\ Cardinality(ProcessingKeys) <= 1
  /\ \A k \in ProcessingKeys : pw.pc = "wait" /\ k = jobKey(JobMP4, pw.rel)

\* C13 witness: the worker waits for the job it started while the next
\* resource sits in the queue.
C13_Witness ==
  /\ pw.pc = "wait"
  /\ jobKey(JobMP4, pw.rel) \in ProcessingKeys
  /\ prewarmQueue # <<>>
  /\ Head(prewarmQueue) # pw.rel

\* C14: the prewarm queue never holds more than prewarmQueueSize items, and
\* enqueuePrewarm always returns: the scan can go on to its next video in
\* every state, and an item offered to a full queue is dropped, leaving the
\* queue and the queued set as they were.
C14_QueueBounded ==
  /\ [](Len(prewarmQueue) <= prewarmQueueSize)
  /\ [](offered < MaxOffered => ENABLED QOffer)
  /\ [][offered' # offered =>
          IF Len(prewarmQueue) < prewarmQueueSize
            THEN /\ prewarmQueue' = Append(prewarmQueue, VideoName(offered'))
                 /\ VideoName(offered') \in prewarmQueued'
            ELSE /\ prewarmQueue' = prewarmQueue
                 /\ prewarmQueued' = prewarmQueued
                 /\ VideoName(offered') \notin prewarmQueued']_vars

\* C14 witness: the queue is full, the worker is busy with an item, and the
\* video the scan offered last is not queued: it was dropped.
C14_Witness ==
  /\ Len(prewarmQueue) = prewarmQueueSize
  /\ pw.pc # "idle"
  /\ offered > 0
  /\ VideoName(offered) \notin prewarmQueued
  /\ VideoName(offered) # pw.rel

\* C15: a growReader with idle timeout T > 0 reports end-of-stream only when
\* no unread byte is left and at least T has passed since it last delivered
\* data and since the file last grew; and it does report it: a Read is never
\* still waiting once T plus one poll interval has passed since the last data.
C15_IdleTimeout ==
  /\ [][(gr'.pc = "done" /\ gr.pc # "done" /\ gr'.result = "EOF") =>
          /\ gr.idleLimit > 0
          /\ gr.pos = input.size
          /\ clock - gr.lastGrow >= gr.idleLimit
          /\ clock - input.grewAt >= gr.idleLimit]_vars
  /\ []((gr.pc \in {"read", "stat", "sleep"} /\ gr.idleLimit > 0) =>
          clock - gr.lastGrow < gr.idleLimit + PollTicks)

\* C15 witness: the file grew, the reader delivered all of it, the file then
\* stayed as it was and the reader reported end-of-stream.
C15_Witness ==
  /\ gr.pc = "done" /\ gr.result = "EOF"
  /\ gr.pos = MaxFileSize
  /\ gr.lastGrow > 0

\* C16: a growReader with idle timeout zero never reports end-of-stream: its
\* Read returns data or the cancellation error only; and StreamMP4 passes the
\* zero timeout exactly when follow is requested.
C16_ZeroNeverGivesUp ==
  /\ (gr.pc # "closed" /\ gr.idleLimit = 0) => gr.result \in {"none", "data", "cancelled"}
  /\ (gr.pc # "closed" /\ gr.caller = "StreamMP4") => gr.idleLimit = 0
  /\ \A follow \in BOOLEAN : (StreamMP4IdleTimeout(follow) = 0) <=> follow

\* C16 witness: a reader with timeout zero still waits for data long after
\* the file last grew, longer than any idle timeout in use.
C16_Witness ==
  /\ gr.pc = "sleep" /\ gr.idleLimit = 0
  /\ gr.pos > 0
  /\ clock - gr.lastGrow > StreamIdleTicks + PollTicks

\* C17: while a Read sleeps at end-of-file with its context cancelled no time
\* passes, and unless the poll timer has fired as well the step that ends the
\* sleep is the return of the cancellation error, whatever the idle timeout.
C17_CancelPrompt ==
  [][(gr.pc = "sleep" /\ ctxDone) =>
       /\ clock' = clock
       /\ (clock < gr.wake /\ gr' # gr) => (gr'.pc = "done" /\ gr'.result = "cancelled")]_vars

\* C17 witness: the context was cancelled in the middle of a sleep, before
\* the poll interval and the idle timeout had passed, and Read returned the
\* cancellation error at that moment.
C17_Witness ==
  /\ gr.pc = "done" /\ gr.result = "cancelled"
  /\ gr.wake - PollTicks < clock /\ clock < gr.wake
  /\ gr.idleLimit > 0 /\ clock - gr.lastGrow < gr.idleLimit


(***************************************************************************)
(* startPieceForRatio under calls: SetStreamingFocus passes the piece      *)
(* layout of a file and the ratio currentTime / duration.                  *)
(***************************************************************************)
Lengths == (0..MaxLength) \cup {101, 1000}

PieceSizes == (0..MaxPieceSize) \cup {100}

PieceRanges == {<<0, -1>>, <<5, 5>>, <<5, 14>>, <<0, 200>>}

\* currentTime and duration as <<num, den>>
Ratios ==
  {<<num, den>> \in ((-1)..(MaxDuration + 1)) \X (1..MaxDuration) : num <= den + 1}
    \cup {<<29, 100>>, <<57, 100>>, <<99, 100>>}

FocusStep ==
  UNCHANGED <<converter, videos, disk, jobs, mp4Slots, workers, calls, ret,
              prewarmVars, nCalls, nRestarts, offered, reader, http, negotiator, svc>>

FocusCall(length, pieceSize, range, t) ==
  /\ focus' = [pc |-> "called",
               p |-> pieceInfo(length, pieceSize, range[1], range[2]),
               num |-> t[1], den |-> t[2], ratio |-> Float64Quot(t[1], t[2])]
  /\ FocusStep

FocusAnswer ==
  /\ focus.pc = "called"
  /\ focus' = [focus EXCEPT !.pc = "returned"]
                 @@ [result |-> startPieceForRatio(focus.p, focus.ratio)]
  /\ FocusStep

FocusReturn ==
  /\ focus.pc = "returned"
  /\ focus' = [pc |-> "idle"]
  /\ FocusStep

NextFocus ==
  \/ /\ focus.pc = "idle"
     /\ \E length \in Lengths, pieceSize \in PieceSizes, range \in PieceRanges,
           t \in Ratios : FocusCall(length, pieceSize, range, t)
  \/ FocusAnswer
  \/ FocusReturn

SpecFocus == Init /\ [][NextFocus]_vars

(***************************************************************************)
(* C18: for a complete file of size S, a request with Range bytes=a- or    *)
(* bytes=a-b where 0 <= a < S and a <= min(b, S-1) is answered 206 with    *)
(* exactly min(b, S-1) - a + 1 bytes starting at offset a and              *)
(* Content-Range "bytes a-min(b,S-1)/S"; a request without Range is        *)
(* answered 200 with all S bytes.  bytes=10-19 on 100 bytes gives 10 bytes *)
(* and "bytes 10-19/100".                                                  *)
(***************************************************************************)
LastWanted ==
  IF http.kind = "closed" THEN Min(http.b, http.fileSize - 1) ELSE http.fileSize - 1

Satisfiable ==
  /\ http.kind \in {"open", "closed"}
  /\ 0 <= http.a /\ http.a < http.fileSize
  /\ http.a <= LastWanted

C18_RangeServed ==
  http.pc = "response" =>
    /\ Satisfiable =>
         /\ http.resp.status = 206
         /\ http.resp.fileBytes =
              [i \in 1..(LastWanted - http.a + 1) |-> (http.a + i - 1) % 256]
         /\ http.resp.contentRange =
              BytesSp \o FormatInt(http.a) \o <<"-">> \o FormatInt(LastWanted)
                \o <<"/">> \o FormatInt(http.fileSize)
    /\ http.kind = "none" =>
         /\ http.resp.status = 200
         /\ http.resp.fileBytes = [i \in 1..http.fileSize |-> (i - 1) % 256]
    /\ (http.fileSize = 100
          /\ http.rangeHeader = <<"b", "y", "t", "e", "s", "=", "1", "0", "-", "1", "9">>) =>
         /\ Len(http.resp.fileBytes) = 10
         /\ http.resp.contentRange =
              <<"b", "y", "t", "e", "s", " ", "1", "0", "-", "1", "9", "/", "1", "0", "0">>

C18_Witness ==
  /\ http.pc = "response"
  /\ http.fileSize = 100 /\ http.kind = "closed" /\ http.a = 10 /\ http.b = 19
  /\ http.resp.status = 206
  /\ http.resp.fileBytes = <<10, 11, 12, 13, 14, 15, 16, 17, 18, 19>>

(***************************************************************************)
(* C19: a request whose start is negative, is at or beyond the file size,  *)
(* or is greater than its end is answered 416 with Content-Range           *)
(* "bytes */S" and no file bytes; bytes=50-20 on 100 bytes gives */100.   *)
(***************************************************************************)
Unsatisfiable ==
  /\ http.kind \in {"open", "closed"}
  /\ \/ http.a < 0
     \/ http.a >= http.fileSize
     \/ http.kind = "closed" /\ http.a > http.b

C19_InvalidRange ==
  (http.pc = "response" /\ Unsatisfiable) =>
    /\ http.resp.status = 416
    /\ http.resp.contentRange = BytesSp \o <<"*", "/">> \o FormatInt(http.fileSize)
    /\ http.resp.fileBytes = <<>>

C19_Witness ==
  /\ http.pc = "response"
  /\ http.fileSize = 100 /\ http.kind = "closed" /\ http.a = 50 /\ http.b = 20
  /\ http.resp.status = 416
  /\ http.resp.contentRange = <<"b", "y", "t", "e", "s", " ", "*", "/", "1", "0", "0">>

(***************************************************************************)
(* C20: for length > 0, pieceSize > 0 and beginPiece <= endPiece,          *)
(* startPieceForRatio returns a piece in [beginPiece, endPiece] that is    *)
(* non-decreasing in the ratio and is beginPiece + floor(offset/pieceSize) *)
(* clamped into the range, where offset is the float64 product             *)
(* (length-1) * clamp(ratio, 0, 1) cut to an integer: the exact floor of   *)
(* the product or, when rounding to 53 bits lifts the product onto the     *)
(* next integer, one more.  Length 1000, pieceSize 100, pieces 5..14:      *)
(* ratio 0.0 gives 5, 0.99 gives 14, 1.0 gives 14.                         *)
(***************************************************************************)
Within(x, lo, hi) == IF x < lo THEN lo ELSE IF x > hi THEN hi ELSE x

FocusValid ==
  focus.p.length > 0 /\ focus.p.pieceSize > 0 /\ focus.p.beginPiece <= focus.p.endPiece

\* floor((length-1) * clamp(ratio, 0, 1)) on the value of the float64 ratio
ExactOffset ==
  IF focus.num <= 0 THEN 0
  ELSE IF focus.num >= focus.den THEN focus.p.length - 1
  ELSE BigToInt(BigShr(BigMulSmall(focus.ratio.sig, focus.p.length - 1), focus.ratio.scale))

\* floor((length-1) * clamp(currentTime / duration, 0, 1)) in rationals
IdealOffset ==
  ((focus.p.length - 1) * Within(focus.num, 0, focus.den)) \div focus.den

PieceAt(offset) ==
  Within(focus.p.beginPiece + (offset \div focus.p.pieceSize),
        focus.p.beginPiece, focus.p.endPiece)

NotAbove(t1, t2) == t1[1] * t2[2] <= t2[1] * t1[2]

Layout1000 == [length |-> 1000, pieceSize |-> 100, beginPiece |-> 5, endPiece |-> 14]

C20_PieceMapping ==
  (focus.pc = "returned" /\ FocusValid) =>
    /\ focus.result[2]
    /\ focus.p.beginPiece <= focus.result[1] /\ focus.result[1] <= focus.p.endPiece
    /\ focus.result[1] \in {PieceAt(ExactOffset), PieceAt(ExactOffset + 1)}
    /\ \A t \in Ratios :
         NotAbove(t, <<focus.num, focus.den>>) =>
           startPieceForRatio(focus.p, Float64Quot(t[1], t[2]))[1] <= focus.result[1]
    /\ focus.p = Layout1000 =>
         /\ focus.num = 0 => focus.result[1] = 5
         /\ (focus.num = 99 /\ focus.den = 100) => focus.result[1] = 14
         /\ focus.num = focus.den => focus.result[1] = 14

C20_Witness ==
  /\ focus.pc = "returned"
  /\ focus.p = Layout1000 /\ focus.num = 99 /\ focus.den = 100
  /\ focus.result = <<14, TRUE>>

\* C20 as stated: the result is exactly the exact formula's piece.
C20_ExactFormula ==
  (focus.pc = "returned" /\ FocusValid) =>
    focus.result = <<PieceAt(ExactOffset), TRUE>>

\* The same with the ratio read as the rational currentTime / duration.
C20_IdealFormula ==
  (focus.pc = "returned" /\ FocusValid) =>
    focus.result = <<PieceAt(IdealOffset), TRUE>>

(***************************************************************************)
(* Client.SetStreamingFocus under concurrent callers.  A step is one lock  *)
(* acquisition or one HTTP attempt of Client.request, with the local work  *)
(* that follows it.                                                        *)
(***************************************************************************)
ClientStep ==
  UNCHANGED <<converter, videos, disk, jobs, mp4Slots, workers, calls, ret,
              prewarmVars, nCalls, nRestarts, offered, reader, http, focus, svc>>

FocusFrame(id, fileIndex, ratio) ==
  [pc |-> "start", id |-> id, fileIndex |-> fileIndex, ratio |-> ratio,
   mode |-> streamingFocusUnknown, piece |-> 0, form |-> "none", tries |-> <<>>,
   forms |-> <<>>, last |-> NoRPC, result |-> NilErr]

\* c.request(method, arguments) is entered
StartRPC(f, form) ==
  [f EXCEPT !.pc = "rpc", !.form = form, !.tries = <<>>, !.forms = Append(@, form)]

ReturnErr(f, err) == [f EXCEPT !.pc = "returned", !.result = err]

\* fetchPieceInfo after its request: the error it returns, NilErr if none
fetchPieceInfoErr(out, payload) ==
  IF out # NilErr THEN out
  ELSE CASE payload.kind = "noTorrent" -> Err("torrent not found")
         [] payload.kind = "noFile" -> Err("torrent file not found")
         [] payload.kind = "noBounds" -> Err("piece boundaries are unavailable")
         [] OTHER -> NilErr

\* The code that runs when c.request returns out, up to the next lock or
\* request.
AfterRequest(f, out, payload) ==
  CASE f.form = "get" ->
         LET err == fetchPieceInfoErr(out, payload)
             sp == startPieceForRatio(payload.p, Float64Quot(f.ratio[1], f.ratio[2]))
         IN IF err # NilErr
              THEN IF isPieceInfoUnsupported(err) THEN [f EXCEPT !.pc = "downgrade"]
                   ELSE StartRPC(f, "basicCamel")
            ELSE IF ~sp[2] THEN StartRPC(f, "basicCamel")
            ELSE [f EXCEPT !.pc = "same", !.piece = sp[1]]
    [] f.form = "advCamel" ->
         IF out = NilErr THEN [f EXCEPT !.pc = "advanced"]
         ELSE IF isUnsupportedFocusError(out) THEN StartRPC(f, "advSnake")
         ELSE ReturnErr(f, out)
    [] f.form = "advSnake" ->
         IF out = NilErr THEN [f EXCEPT !.pc = "advanced"]
         ELSE IF isUnsupportedFocusError(out) THEN [f EXCEPT !.pc = "downgrade"]
         ELSE ReturnErr(f, out)
    [] f.form = "basicCamel" ->
         IF out = NilErr \/ ~isUnsupportedFocusError(out) THEN ReturnErr(f, out)
         ELSE StartRPC(f, "basicSnake")
    [] f.form = "basicSnake" -> ReturnErr(f, out)

\* c.request returns out: the call remembers the request it made
Finish(f, tries, out, payload) ==
  AfterRequest([f EXCEPT !.last = [form |-> f.form, tries |-> tries, out |-> out]],
               out, payload)

FocusEnter(g, target, ratio) ==
  /\ fcalls[g].pc = "idle"
  /\ nFocus < MaxFocusCalls
  /\ nFocus' = nFocus + 1
  /\ fcalls' = [fcalls EXCEPT ![g] = FocusFrame(target[1], target[2], ratio)]
  /\ UNCHANGED client
  /\ ClientStep

\* mode := c.getFocusMode()
GetFocusMode(g) ==
  /\ fcalls[g].pc = "start"
  /\ LET f == [fcalls[g] EXCEPT !.mode = client.focusMode]
     IN fcalls' = [fcalls EXCEPT ![g] =
                     IF client.focusMode = streamingFocusBasic
                       THEN StartRPC(f, "basicCamel") ELSE StartRPC(f, "get")]
  /\ UNCHANGED <<client, nFocus>>
  /\ ClientStep

\* One pass of the loop of Client.request: send with the stored session id,
\* read the answer.
HTTPAttempt(g, ans) ==
  /\ fcalls[g].pc = "rpc"
  /\ LET f == fcalls[g]
         tries == Append(f.tries, [token |-> client.sessionID, answer |-> ans.kind,
                                   got |-> ans.token])
     IN CASE ans.kind = "conflict" ->
               IF ans.token = ""
                 THEN /\ fcalls' = [fcalls EXCEPT ![g] =
                           Finish(f, tries, Err("Transmission session id missing"), NoPayload)]
                      /\ UNCHANGED client
                 ELSE /\ client' = [client EXCEPT !.sessionID = ans.token]
                      /\ fcalls' = [fcalls EXCEPT ![g] =
                           IF moreAttempts(Len(tries)) THEN [f EXCEPT !.tries = tries]
                           ELSE Finish(f, tries,
                                       Err("Transmission session negotiation failed"),
                                       NoPayload)]
          [] ans.kind = "error" ->
               /\ fcalls' = [fcalls EXCEPT ![g] = Finish(f, tries, Err(ans.text), NoPayload)]
               /\ UNCHANGED client
          [] ans.kind = "success" ->
               /\ fcalls' = [fcalls EXCEPT ![g] = Finish(f, tries, NilErr, ans.payload)]
               /\ client' = Accepted(client, f)
  /\ UNCHANGED nFocus
  /\ ClientStep

\* if c.sameFocusedPiece(id, fileIndex, startPiece) { return nil }
SameFocusedPiece(g) ==
  /\ fcalls[g].pc = "same"
  /\ LET f == fcalls[g]
     IN fcalls' = [fcalls EXCEPT ![g] =
                     IF sameFocusedPiece(client, f.id, f.fileIndex, f.piece)
                       THEN ReturnErr(f, NilErr) ELSE StartRPC(f, "advCamel")]
  /\ UNCHANGED <<client, nFocus>>
  /\ ClientStep

\* c.setFocusMode(streamingFocusAdvanced)
SetAdvanced(g) ==
  /\ fcalls[g].pc = "advanced"
  /\ client' = [client EXCEPT !.focusMode = streamingFocusAdvanced]
  /\ fcalls' = [fcalls EXCEPT ![g].pc = "remember"]
  /\ UNCHANGED nFocus
  /\ ClientStep

\* c.rememberPiece(id, fileIndex, startPiece); return nil
RememberPiece(g) ==
  /\ fcalls[g].pc = "remember"
  /\ LET f == fcalls[g]
     IN /\ client' = rememberPiece(client, f.id, f.fileIndex, f.piece)
        /\ fcalls' = [fcalls EXCEPT ![g] = ReturnErr(f, NilErr)]
  /\ UNCHANGED nFocus
  /\ ClientStep

\* c.setFocusMode(streamingFocusBasic); return c.setBasicFocus(id, fileIndex)
Downgrade(g) ==
  /\ fcalls[g].pc = "downgrade"
  /\ client' = [client EXCEPT !.focusMode = streamingFocusBasic,
                              !.downgradedBy = fcalls[g].last.form]
  /\ fcalls' = [fcalls EXCEPT ![g] = StartRPC(fcalls[g], "basicCamel")]
  /\ UNCHANGED nFocus
  /\ ClientStep

\* The caller has the result; the goroutine is free for another call.
FocusLeave(g) ==
  /\ fcalls[g].pc = "returned"
  /\ fcalls' = [fcalls EXCEPT ![g] = IdleCall]
  /\ UNCHANGED <<client, nFocus>>
  /\ ClientStep

\* The steps of a call between its HTTP attempts
FocusLocal(g) ==
  \/ GetFocusMode(g)
  \/ SameFocusedPiece(g)
  \/ SetAdvanced(g)
  \/ RememberPiece(g)
  \/ Downgrade(g)
  \/ FocusLeave(g)

\* The backend has a session with the client: it answers no conflict.
NextClient ==
  \E g \in Goroutines :
    \/ \E target \in Targets, ratio \in FocusRatios : FocusEnter(g, target, ratio)
    \/ /\ fcalls[g].pc = "rpc"
       /\ \E ans \in Answers(fcalls[g].form) :
            ans.kind # "conflict" /\ HTTPAttempt(g, ans)
    \/ FocusLocal(g)

SpecClient == Init /\ [][NextClient]_vars

\* The backend may answer any attempt with a conflict; the callers focus on
\* one file.
NextSession ==
  \E g \in Goroutines :
    \/ nFocus < MaxSessionCalls /\ FocusEnter(g, <<1, 11>>, <<99, 100>>)
    \/ /\ fcalls[g].pc = "rpc"
       /\ \E ans \in Answers(fcalls[g].form) : HTTPAttempt(g, ans)
    \/ FocusLocal(g)

SpecSession == Init /\ [][NextSession]_vars

(***************************************************************************)
(* C21: once the cached mode is Basic it stays Basic for the life of the   *)
(* client, under any interleaving of concurrent focus calls, and a call    *)
(* that reads the mode from then on sends the basic request form only.     *)
(***************************************************************************)
BasicForms == {"basicCamel", "basicSnake"}

C21_DowngradePersists ==
  [][(client.focusMode = streamingFocusBasic /\ client.downgradedBy = "advSnake") =>
       /\ client'.focusMode = streamingFocusBasic
       /\ \A g \in Goroutines :
            (fcalls[g].pc = "start" /\ fcalls'[g].pc # "start") =>
              fcalls'[g].form \in BasicForms]_vars

(***************************************************************************)
(* C22: a call that read a mode other than Basic and whose target piece is *)
(* the piece remembered for its (id, file index) pair sends no torrent-set *)
(* and returns nil; a call whose pair has no such piece remembered goes on *)
(* to the advanced request whatever is remembered for other pairs; the     *)
(* remembered piece of a pair changes only when an advanced request for    *)
(* that pair has succeeded.                                                *)
(***************************************************************************)
AdvancedForms == {"advCamel", "advSnake"}

\* The last piece an advanced request was accepted for, per pair.
RememberedFor(id, fileIndex, piece) ==
  \E key \in DOMAIN client.lastPiece :
    key = focusKey(id, fileIndex) /\ client.lastPiece[key] = piece

C22_SameStep(g) ==
  fcalls[g].pc = "same" /\ fcalls'[g] # fcalls[g] =>
    /\ fcalls[g].mode # streamingFocusBasic
    /\ client' = client
    /\ IF RememberedFor(fcalls[g].id, fcalls[g].fileIndex, fcalls[g].piece)
         THEN /\ fcalls'[g].pc = "returned"
              /\ fcalls'[g].result = NilErr
              /\ fcalls'[g].forms = <<"get">>
         ELSE /\ fcalls'[g].pc = "rpc"
              /\ fcalls'[g].form = "advCamel"

C22_RememberStep ==
  client'.lastPiece # client.lastPiece =>
    \E g \in Goroutines :
      /\ fcalls[g].pc = "remember"
      /\ fcalls[g].last.form \in AdvancedForms /\ fcalls[g].last.out = NilErr
      /\ fcalls'[g].pc = "returned" /\ fcalls'[g].result = NilErr
      /\ \A t \in Targets :
           IF t = <<fcalls[g].id, fcalls[g].fileIndex>>
             THEN focusKey(t[1], t[2]) \in DOMAIN client'.lastPiece
                  /\ client'.lastPiece[focusKey(t[1], t[2])] = fcalls[g].piece
             ELSE \A piece \in 0..14 :
                    (focusKey(t[1], t[2]) \in DOMAIN client'.lastPiece
                       /\ client'.lastPiece[focusKey(t[1], t[2])] = piece)
                    <=> (focusKey(t[1], t[2]) \in DOMAIN client.lastPiece
                           /\ client.lastPiece[focusKey(t[1], t[2])] = piece)

C22_FocusIdempotent ==
  [][C22_RememberStep /\ \A g \in Goroutines : C22_SameStep(g)]_vars

C22_Witness ==
  \E g \in Goroutines :
    /\ fcalls[g].pc = "returned"
    /\ fcalls[g].mode = streamingFocusAdvanced
    /\ fcalls[g].forms = <<"get">> /\ fcalls[g].last.out = NilErr
    /\ fcalls[g].result = NilErr
    /\ RememberedFor(fcalls[g].id, fcalls[g].fileIndex, fcalls[g].piece)
    /\ \E t \in Targets : ~\E piece \in 0..14 : RememberedFor(t[1], t[2], piece)

(***************************************************************************)
(* C23: when the advanced request is rejected as using an unknown argument *)
(* (in both namings), the call sets the mode to Basic, sends the basic     *)
(* form once and returns its outcome; when the advanced request fails with *)
(* another error the call returns that error, sends no basic request and   *)
(* changes neither the mode nor the remembered pieces.                     *)
(***************************************************************************)
Rejected(err) == err.text = "unknown argument"

Count(seq, x) == Cardinality({i \in 1..Len(seq) : seq[i] = x})

C23_Returned(g) ==
  fcalls[g].pc = "returned" =>
    /\ (fcalls[g].last.form \in AdvancedForms /\ fcalls[g].last.out # NilErr) =>
         /\ ~Rejected(fcalls[g].last.out)
         /\ fcalls[g].result = fcalls[g].last.out
         /\ \A i \in 1..Len(fcalls[g].forms) : fcalls[g].forms[i] \notin BasicForms
    /\ Count(fcalls[g].forms, "advSnake") = 1 =>
         /\ fcalls[g].forms[Len(fcalls[g].forms)] \in BasicForms
              => (/\ Count(fcalls[g].forms, "basicCamel") = 1
                  /\ Count(fcalls[g].forms, "basicSnake") <= 1
                  /\ fcalls[g].last.form \in BasicForms
                  /\ fcalls[g].result = fcalls[g].last.out)

C23_AdvancedAnswered(g) ==
  (fcalls[g].pc = "rpc" /\ fcalls[g].form \in AdvancedForms
     /\ fcalls'[g].pc # "rpc" /\ fcalls'[g].last.out # NilErr) =>
    /\ client' = client
    /\ IF Rejected(fcalls'[g].last.out)
         THEN fcalls[g].form = "advSnake" /\ fcalls'[g].pc = "downgrade"
         ELSE fcalls'[g].pc = "returned"

C23_Downgraded(g) ==
  (fcalls[g].pc = "downgrade" /\ fcalls'[g] # fcalls[g]) =>
    /\ client'.focusMode = streamingFocusBasic
    /\ client'.lastPiece = client.lastPiece
    /\ fcalls'[g].pc = "rpc" /\ fcalls'[g].form = "basicCamel"

C23_AdvancedFailure ==
  /\ [](\A g \in Goroutines : C23_Returned(g))
  /\ [][\A g \in Goroutines : C23_AdvancedAnswered(g) /\ C23_Downgraded(g)]_vars

C23_Witness ==
  \E g \in Goroutines :
    /\ fcalls[g].pc = "returned"
    /\ fcalls[g].forms = <<"get", "advCamel", "advSnake", "basicCamel">>
    /\ fcalls[g].result = Err("busy")
    /\ client.focusMode = streamingFocusBasic

(***************************************************************************)
(* C24: the rejection of a piece-metadata query or of an advanced request  *)
(* as unsupported is never what SetStreamingFocus returns; the only        *)
(* rejection a call returns is that of the basic request in its second     *)
(* naming, after the first naming was rejected too.                        *)
(***************************************************************************)
C24_AdvancedRejectionRecovered ==
  \A g \in Goroutines :
    (fcalls[g].pc = "returned" /\ Rejected(fcalls[g].result)) =>
      /\ fcalls[g].last.form = "basicSnake"
      /\ fcalls[g].result = fcalls[g].last.out
      /\ Len(fcalls[g].forms) >= 2
      /\ fcalls[g].forms[Len(fcalls[g].forms) - 1] = "basicCamel"

C24_Witness ==
  \E g \in Goroutines :
    /\ fcalls[g].pc = "returned"
    /\ fcalls[g].forms = <<"get", "advCamel", "advSnake", "basicCamel", "basicSnake">>
    /\ Rejected(fcalls[g].result)

\* C24 as stated: no call returns a rejection as unsupported.
C24_NeverSurfaced ==
  \A g \in Goroutines :
    fcalls[g].pc = "returned" => ~Rejected(fcalls[g].result)

(***************************************************************************)
(* C30: a call that fell back to the basic form because the piece metadata *)
(* was unavailable (the query failed, or gave no boundaries or no usable   *)
(* piece size) has cached the downgrade: the client's mode is Basic.       *)
(***************************************************************************)
C30_FellBack(g) ==
  /\ fcalls[g].pc \in {"rpc", "returned"}
  /\ Len(fcalls[g].forms) >= 2
  /\ fcalls[g].forms[1] = "get"
  /\ fcalls[g].forms[2] = "basicCamel"

C30_FallbackCached ==
  \A g \in Goroutines :
    C30_FellBack(g) => client.focusMode = streamingFocusBasic

(***************************************************************************)
(* C25: session handshake of Client.request.  A conflict that carries a    *)
(* token stores the token, and the request is sent once more with the      *)
(* stored token; a conflict on that second attempt ends the request with   *)
(* "session negotiation failed"; a conflict without a token ends it with   *)
(* "session id missing" at once.  No request makes more than two attempts. *)
(***************************************************************************)
C25_Attempts(tries) ==
  /\ Len(tries) <= 2
  /\ Len(tries) = 2 =>
       /\ tries[1].answer = "conflict"
       /\ tries[1].got \in SessionTokens
       /\ tries[2].token \in SessionTokens

C25_Outcome(rpc) ==
  rpc.tries # <<>> =>
    LET n == Len(rpc.tries)
        t == rpc.tries[n]
    IN t.answer = "conflict" =>
         IF t.got = "" THEN rpc.out = Err("Transmission session id missing")
         ELSE n = 2 /\ rpc.out = Err("Transmission session negotiation failed")

C25_InFlight(f) ==
  f.pc = "rpc" =>
    /\ Len(f.tries) <= 1
    /\ f.tries # <<>> =>
         f.tries[1].answer = "conflict" /\ f.tries[1].got \in SessionTokens

\* The attempt a step of goroutine g has added
C25_NewTry(g) ==
  IF fcalls'[g].pc = "rpc" /\ fcalls'[g].tries # <<>>
    THEN fcalls'[g].tries[Len(fcalls'[g].tries)]
  ELSE fcalls'[g].last.tries[Len(fcalls'[g].last.tries)]

C25_AttemptStep(g) ==
  (fcalls[g].pc = "rpc" /\ fcalls'[g] # fcalls[g]) =>
    LET t == C25_NewTry(g)
    IN /\ t.token = client.sessionID
       /\ client'.sessionID =
            IF t.answer = "conflict" /\ t.got # "" THEN t.got ELSE client.sessionID

C25_SessionHandshake ==
  /\ [](\A g \in Goroutines :
          fcalls[g].pc # "idle" =>
            /\ C25_Attempts(fcalls[g].tries)
            /\ C25_Attempts(fcalls[g].last.tries)
            /\ C25_Outcome(fcalls[g].last)
            /\ C25_InFlight(fcalls[g]))
  /\ [][\A g \in Goroutines : C25_AttemptStep(g)]_vars

C25_Witness ==
  \E g \in Goroutines :
    /\ fcalls[g].pc # "idle"
    /\ Len(fcalls[g].last.tries) = 2
    /\ fcalls[g].last.tries[2].answer = "conflict"
    /\ fcalls[g].last.tries[2].token = fcalls[g].last.tries[1].got
    /\ fcalls[g].last.out = Err("Transmission session negotiation failed")

(***************************************************************************)
(* torrent.Service.SetStreamingFocus.  A float64 argument is NaN, an       *)
(* infinity or an integral number of seconds; the gateway is the           *)
(* environment and answers nil or an error.                                *)
(***************************************************************************)
NaN == [kind |-> "nan", n |-> 0]

Inf(n) == [kind |-> "inf", n |-> n]

Num(n) == [kind |-> "num", n |-> n]

Seconds == {NaN, Inf(1), Inf(-1)} \cup {Num(n) : n \in -1..MaxSeconds}

TorrentIds == {-1, 0, 1, 4}

FileIndexes == {-1, 0, 2}

GatewayResults == {NilErr, Err("upstream failed")}

IsNaN(x) == x.kind = "nan"

IsInfNever(x) == FALSE

\* math.IsInf(x, 0)
IsInf(x) == x.kind = "inf"

\* x > 0
GreaterZero(x) == x.kind # "nan" /\ x.n > 0

Ratio(kind, f) == [kind |-> kind, f |-> f]

\* x / y in float64
Float64Div(x, y) ==
  LET neg == (x.n < 0) # (y.n < 0)
      signed == Float(neg, <<>>, 0)
  IN CASE IsNaN(x) \/ IsNaN(y) -> Ratio("nan", FloatZero)
       [] IsInf(x) /\ IsInf(y) -> Ratio("nan", FloatZero)
       [] IsInf(x) -> Ratio("inf", signed)
       [] IsInf(y) -> Ratio("num", FloatZero)
       [] y.n = 0 -> IF x.n = 0 THEN Ratio("nan", FloatZero) ELSE Ratio("inf", signed)
       [] OTHER ->
            LET q == Float64Quot(IF x.n < 0 THEN -x.n ELSE x.n,
                                 IF y.n < 0 THEN -y.n ELSE y.n)
            IN Ratio("num", Float(neg, q.sig, q.scale))

\* positionRatio < 0
RatioNegative(r) ==
  CASE r.kind = "nan" -> FALSE
    [] r.kind = "inf" -> r.f.neg
    [] OTHER -> FloatNegative(r.f)

\* positionRatio > 1
RatioAboveOne(r) ==
  CASE r.kind = "nan" -> FALSE
    [] r.kind = "inf" -> ~r.f.neg
    [] OTHER -> FloatAboveOne(r.f)

positionRatio(currentTime, duration) ==
  LET r0 == IF /\ ~IsNaN(currentTime) /\ ~IsInf(currentTime) /\ GreaterZero(currentTime)
               /\ ~IsNaN(duration) /\ ~IsInf(duration) /\ GreaterZero(duration)
              THEN Float64Div(currentTime, duration)
            ELSE Ratio("num", FloatZero)
      r1 == IF RatioNegative(r0) THEN Ratio("num", FloatZero) ELSE r0
  IN IF RatioAboveOne(r1) THEN Ratio("num", FloatOne) ELSE r1

invalidTargetIdOnly(id, fileIndex) == id <= 0

\* id <= 0 || fileIndex < 0
invalidTarget(id, fileIndex) == id <= 0 \/ fileIndex < 0

NoGatewayCall == [called |-> FALSE, id |-> 0, fileIndex |-> 0,
                  ratio |-> Ratio("num", FloatZero), result |-> NilErr]

ServiceStep ==
  UNCHANGED <<converter, videos, disk, jobs, mp4Slots, workers, calls, ret,
              prewarmVars, nCalls, nRestarts, offered, reader, http, focus,
              negotiator>>

\* Service.SetStreamingFocus up to its return or its call of the gateway
ServiceSetStreamingFocus(enabled, id, fileIndex, currentTime, duration) ==
  /\ svc.pc = "idle"
  /\ LET call == [enabled |-> enabled, id |-> id, fileIndex |-> fileIndex,
                  currentTime |-> currentTime, duration |-> duration]
     IN svc' =
          IF ~enabled
            THEN [pc |-> "returned", call |-> call, gateway |-> NoGatewayCall,
                  result |-> Err("Transmission is not configured")]
          ELSE IF invalidTarget(id, fileIndex)
            THEN [pc |-> "returned", call |-> call, gateway |-> NoGatewayCall,
                  result |-> Err("invalid torrent or file index")]
          ELSE [pc |-> "gateway", call |-> call,
                gateway |-> [called |-> TRUE, id |-> id, fileIndex |-> fileIndex,
                             ratio |-> positionRatio(currentTime, duration),
                             result |-> NilErr],
                result |-> NilErr]
  /\ ServiceStep

\* return s.gateway.SetStreamingFocus(id, fileIndex, positionRatio)
GatewaySetStreamingFocus(err) ==
  /\ svc.pc = "gateway"
  /\ svc' = [svc EXCEPT !.pc = "returned", !.gateway.result = err, !.result = err]
  /\ ServiceStep

ServiceLeave ==
  /\ svc.pc = "returned"
  /\ svc' = [pc |-> "idle"]
  /\ ServiceStep

NextService ==
  \/ /\ svc.pc = "idle"
     /\ \E enabled \in BOOLEAN, id \in TorrentIds, fileIndex \in FileIndexes,
           currentTime \in Seconds, duration \in Seconds :
          ServiceSetStreamingFocus(enabled, id, fileIndex, currentTime, duration)
  \/ \E err \in GatewayResults : GatewaySetStreamingFocus(err)
  \/ ServiceLeave

SpecService == Init /\ [][NextService]_vars

(***************************************************************************)
(* C26: the gateway receives the caller's id and file index and the ratio  *)
(* currentTime / duration clamped into [0, 1]: 0 when the duration or the  *)
(* current time is NaN, infinite or not positive, 1 when the current time  *)
(* exceeds the duration.                                                   *)
(***************************************************************************)
Finite(x) == x.kind = "num"

C26_Unknown(x) == ~Finite(x) \/ x.n <= 0

C26_PassedRatio ==
  (svc.pc # "idle" /\ svc.gateway.called) =>
    LET c == svc.call
        r == svc.gateway.ratio
    IN /\ svc.gateway.id = c.id
       /\ svc.gateway.fileIndex = c.fileIndex
       /\ r.kind = "num"
       /\ ~FloatNegative(r.f) /\ ~FloatAboveOne(r.f)
       /\ (C26_Unknown(c.duration) \/ C26_Unknown(c.currentTime)) => r.f = FloatZero
       /\ (~C26_Unknown(c.duration) /\ ~C26_Unknown(c.currentTime)) =>
            /\ c.currentTime.n > c.duration.n => r.f = FloatOne
            /\ c.currentTime.n <= c.duration.n =>
                 r.f = Float64Quot(c.currentTime.n, c.duration.n)
            /\ 2 * c.currentTime.n = c.duration.n =>
                 r.f = Float(FALSE, BigShl(BigOf(1), MantissaBits - 1), MantissaBits)

C26_Witness ==
  /\ svc.pc = "returned"
  /\ svc.gateway.called
  /\ Finite(svc.call.currentTime) /\ Finite(svc.call.duration)
  /\ svc.call.currentTime.n > svc.call.duration.n
  /\ svc.call.duration.n > 0
  /\ svc.gateway.ratio.f = FloatOne

(***************************************************************************)
(* C27: a disabled gateway, an id <= 0 or a negative file index gives an   *)
(* error without a call of the gateway; any other call returns the result  *)
(* of the gateway, nil or error, as it is.                                 *)
(***************************************************************************)
C27_GatewayResult ==
  svc.pc = "returned" =>
    IF ~svc.call.enabled \/ svc.call.id <= 0 \/ svc.call.fileIndex < 0
      THEN ~svc.gateway.called /\ svc.result # NilErr
    ELSE svc.gateway.called /\ svc.result = svc.gateway.result

C27_Witness ==
  /\ svc.pc = "returned"
  /\ svc.gateway.called
  /\ svc.result = Err("upstream failed")

(***************************************************************************)
(* C28: a kickoff never waits.  Every StartHLS / StartMP4 call in flight   *)
(* has its next step enabled whatever the conversions and the MP4 gate are *)
(* doing, and the step that starts a job returns Processing at once: it    *)
(* takes no gate slot and leaves the conversion to a goroutine that has    *)
(* not begun.                                                              *)
(***************************************************************************)
C28_CanStep(f) == ENABLED (StartCheck(f) \/ StartPrepare(f) \/ StartLaunch(f))

C28_LaunchStep(f) ==
  (IsKickoff(f.op) /\ f.pc = "start" /\ calls' = BagDel(calls, f)
     /\ nRestarts' = nRestarts) =>
    /\ ret' = Deliver(f, JobStatus(StateProcessing, FALSE, TRUE, f.segments, "", 0), "")
    /\ mp4Slots' = mp4Slots
    /\ workers' = BagAdd(workers, Worker(KindOf(f.op), f.rel,
                            IF f.op = "StartHLS" THEN "mkdir" ELSE "acquire"))

C28_KickoffNeverBlocks ==
  /\ [](\A f \in BagToSet(calls) : IsKickoff(f.op) => C28_CanStep(f))
  /\ [][\A f \in BagToSet(calls) : C28_LaunchStep(f)]_vars

C28_Witness ==
  /\ mp4Slots = defaultMP4Concurrency
  /\ ret # NoRet
  /\ ret.op = "StartMP4"
  /\ ret.err = ""
  /\ ret.status.State = StateProcessing
  /\ ~ret.ready
  /\ \E w \in BagToSet(workers) :
       w.kind = JobMP4 /\ w.rel = ret.rel /\ w.pc = "acquire"

(***************************************************************************)
(* C29: in one process the registry state of a key changes only from Idle  *)
(* to Processing, from Processing to Ready or Failed, and from Ready or    *)
(* Failed to Processing; entering Processing sets progress 0 and no error. *)
(***************************************************************************)
C29_Allowed ==
  {<<StateIdle, StateProcessing>>, <<StateProcessing, StateReady>>,
   <<StateProcessing, StateFailed>>, <<StateReady, StateProcessing>>,
   <<StateFailed, StateProcessing>>}

C29_KeyStep(key) ==
  LET old == RegStatus(jobs, key)
      new == RegStatus(jobs', key)
  IN old.state # new.state =>
       /\ <<old.state, new.state>> \in C29_Allowed
       /\ new.state = StateProcessing => new.err = "" /\ new.progress = 0

C29_Lifecycle ==
  [][nRestarts' = nRestarts =>
       \A key \in DOMAIN jobs \cup DOMAIN jobs' : C29_KeyStep(key)]_vars

(***************************************************************************)
(* C31: a focus request goes out with the camelCase names first and with   *)
(* the snake_case names only when, and whenever, the camelCase attempt was *)
(* rejected as unsupported; no form is sent twice in a call.  The mode is  *)
(* downgraded after both forms of the advanced request were rejected, or   *)
(* after a metadata answer without piece boundaries.                       *)
(***************************************************************************)
CamelOf(form) == IF form = "advSnake" THEN "advCamel" ELSE "basicCamel"

SnakeOf(form) == IF form = "advCamel" THEN "advSnake" ELSE "basicSnake"

SnakeForms == {"advSnake", "basicSnake"}

CamelForms == {"advCamel", "basicCamel"}

\* goroutine g has ended a request in this step
C31_Answered(g) ==
  fcalls[g].pc = "rpc" /\ fcalls'[g] # fcalls[g] /\ fcalls'[g].last # fcalls[g].last

C31_OrderStep(g) ==
  /\ (C31_Answered(g) /\ fcalls[g].form \in CamelForms) =>
       IF Rejected(fcalls'[g].last.out)
         THEN /\ fcalls'[g].pc = "rpc"
              /\ fcalls'[g].forms = Append(fcalls[g].forms, SnakeOf(fcalls[g].form))
         ELSE fcalls'[g].forms = fcalls[g].forms
  /\ (fcalls[g].pc # "idle" /\ fcalls'[g].pc = "rpc"
        /\ fcalls'[g].forms # fcalls[g].forms /\ fcalls'[g].form \in SnakeForms) =>
       /\ C31_Answered(g)
       /\ fcalls'[g].last.form = CamelOf(fcalls'[g].form)
       /\ Rejected(fcalls'[g].last.out)

C31_BothAdvancedRejected(f) ==
  /\ f.last.form = "advSnake" /\ Rejected(f.last.out)
  /\ Len(f.forms) >= 2
  /\ f.forms[Len(f.forms)] = "advSnake"
  /\ f.forms[Len(f.forms) - 1] = "advCamel"

C31_NoBoundaries(f) ==
  f.last.form = "get" /\ f.last.out = NilErr /\ f.forms = <<"get">>

C31_NamingOrder ==
  /\ [](\A g \in Goroutines :
          fcalls[g].pc # "idle" =>
            /\ \A form \in SnakeForms \cup CamelForms : Count(fcalls[g].forms, form) <= 1
            /\ fcalls[g].pc = "downgrade" =>
                 C31_BothAdvancedRejected(fcalls[g]) \/ C31_NoBoundaries(fcalls[g]))
  /\ [][\A g \in Goroutines : C31_OrderStep(g)]_vars

C31_Witness ==
  \E g \in Goroutines :
    /\ fcalls[g].pc = "downgrade"
    /\ C31_BothAdvancedRejected(fcalls[g])
    /\ fcalls[g].forms = <<"get", "advCamel", "advSnake">>

\* C31 as stated: the mode is downgraded only after both forms of the
\* advanced request were rejected.
C31_DowngradeOnlyAfterBoth ==
  \A g \in Goroutines :
    fcalls[g].pc = "downgrade" => C31_BothAdvancedRejected(fcalls[g])

(***************************************************************************)
(* C32: the gate holds exactly one slot for every MP4 goroutine that has   *)
(* passed the acquire and not yet released, whether its conversion         *)
(* succeeded or failed; a slot comes back one at a time, by the goroutine  *)
(* that ends.  With no MP4 goroutine left the gate is empty again.         *)
(***************************************************************************)
HoldingSlot ==
  {w \in BagToSet(workers) :
     w.kind = JobMP4 /\ w.pc \in {"run", "rename", "ready", "fail", "release"}}

C32_ReleaseStep ==
  (mp4Slots' < mp4Slots /\ nRestarts' = nRestarts) =>
    /\ mp4Slots' = mp4Slots - 1
    /\ \E w \in HoldingSlot : w.pc = "release" /\ workers' = BagDel(workers, w)

C32_GateReleased ==
  /\ [](mp4Slots = Copies(HoldingSlot))
  /\ [][C32_ReleaseStep]_vars

C32_Witness ==
  /\ nRestarts = 0
  /\ mp4Slots = 0
  /\ workers = EmptyBag
  /\ \E r \in Resources :
       /\ jobKey(JobMP4, r) \in DOMAIN jobs
       /\ jobs[jobKey(JobMP4, r)].state = StateFailed

(***************************************************************************)
(* C33: when a scan has ended, the observation map and the queue markers   *)
(* hold no resource that the listing of that scan did not contain.         *)
(***************************************************************************)
C33_ScanStep ==
  nScans' = nScans + 1 =>
    /\ DOMAIN prewarmObserved' \subseteq DOMAIN videos
    /\ prewarmQueued' \subseteq DOMAIN videos

C33_ScanCollects == [][C33_ScanStep]_vars

InQueue(r) == \E i \in 1..Len(prewarmQueue) : prewarmQueue[i] = r

\* A resource that was queued, then left the library: the scan after that
\* has dropped its observation and its marker.
C33_Witness ==
  \E r \in Resources :
    /\ r \notin DOMAIN videos
    /\ InQueue(r)
    /\ r \notin DOMAIN prewarmObserved
    /\ r \notin prewarmQueued

(***************************************************************************)
(* C37: a resource path is in the prewarm queue at most once, and every    *)
(* path in the queue has its marker set.                                   *)
(***************************************************************************)
C37_AtMostOnce ==
  \A i, j \in 1..Len(prewarmQueue) : prewarmQueue[i] = prewarmQueue[j] => i = j

C37_QueuedAreMarked ==
  \A i \in 1..Len(prewarmQueue) : prewarmQueue[i] \in prewarmQueued

C37_QueueConsistent == C37_AtMostOnce /\ C37_QueuedAreMarked

(***************************************************************************)
(* C34: a scan that queues a resource comes more than one scan interval    *)
(* after the scan that first observed the resource's current size and      *)
(* modification time, the dwell window being longer than the interval.     *)
(***************************************************************************)
C34_QueuedBy(r) ==
  /\ nScans' = nScans + 1
  /\ r \in prewarmQueued' \ prewarmQueued

C34_ExtraScan ==
  [][\A r \in Resources :
       C34_QueuedBy(r) => now' - prewarmObserved'[r].firstSeen > PrewarmInterval]_vars

(***************************************************************************)
(* C35: while an MP4 job is Processing its progress never goes down and    *)
(* stays at most 99 until ffmpeg has exited with success, which makes it   *)
(* 100; a job that Failed with the error of ffmpeg has no progress 100.    *)
(***************************************************************************)
C35_Exited(r) ==
  \E w \in BagToSet(workers) :
    /\ w.kind = JobMP4 /\ w.rel = r
    /\ w.pc \in {"rename", "ready", "fail"}
    /\ w.err \notin BackendErrors

C35_State(r) ==
  LET st == RegStatus(jobs, jobKey(JobMP4, r))
  IN /\ (st.state = StateProcessing /\ ~C35_Exited(r)) => st.progress <= 99
     /\ (st.state = StateFailed /\ st.err \in BackendErrors) => st.progress < 100

C35_Step(r) ==
  LET old == RegStatus(jobs, jobKey(JobMP4, r))
      new == RegStatus(jobs', jobKey(JobMP4, r))
  IN (old.state = StateProcessing /\ nRestarts' = nRestarts) =>
       new.progress >= old.progress

C35_ProgressMonotone ==
  /\ [](\A r \in Resources : C35_State(r))
  /\ [][\A r \in Resources : C35_Step(r)]_vars

(***************************************************************************)
(* C36: whatever registry operations ran, on started keys or not,          *)
(* Status(key) gives one of the four job states and a progress within      *)
(* 0..100, and Idle, no error and 0 for a key that has no entry.           *)
(***************************************************************************)
JobStates == {StateIdle, StateProcessing, StateReady, StateFailed}

C36_StatusWellFormed ==
  \A key \in RegistryKeys :
    LET st == RegStatus(jobs, key)
    IN /\ st.state \in JobStates
       /\ st.progress \in 0..100
       /\ key \notin DOMAIN jobs => st = [state |-> StateIdle, err |-> "", progress |-> 0]

(***************************************************************************)
(* C38: a focus call returns as a duplicate, without a request, only when  *)
(* the focus request the backend accepted last for that id and file index  *)
(* was the advanced request for the same piece.                            *)
(***************************************************************************)
C38_Suppressed(g) ==
  /\ fcalls[g].pc = "same"
  /\ fcalls'[g].pc = "returned"

C38_DuplicateOnlyAfterAdvanced ==
  [][\A g \in Goroutines :
       C38_Suppressed(g) =>
         LET key == focusKey(fcalls[g].id, fcalls[g].fileIndex)
         IN /\ key \in DOMAIN client.accepted
            /\ client.accepted[key] = <<"advanced", fcalls[g].piece>>]_vars

(***************************************************************************)
(* C40: a status query answers Ready only when its own readiness probe,    *)
(* taken on the disk as the query found it, saw a valid artifact.  A       *)
(* registry entry in state Ready does not make the answer Ready: with a    *)
(* probe that failed the query answers Idle with ready = false.            *)
(***************************************************************************)
C40_ReadyOnlyWithArtifact ==
  [][/\ \A f \in BagToSet(calls') :
          (~IsKickoff(f.op) /\ CopiesIn(f, calls') > CopiesIn(f, calls))
            => f.ready = Probe(f.op, f.rel)
     /\ (ret'.op \in StatusOps /\ ret'.err = "") =>
          LET st == RegStatus(jobs, jobKey(KindOf(ret'.op), ret'.rel)) IN
          /\ ret'.status.State = StateReady => (ret'.ready /\ ret'.status.Ready)
          /\ (st.state = StateReady /\ ~ret'.ready)
               => (ret'.status.State = StateIdle /\ ~ret'.status.Ready)]_vars

\* C40 witness: a status query found no valid artifact while the registry
\* entry of its key is Ready, and answered Idle.
C40_Witness ==
  /\ ret.op \in StatusOps /\ ret.err = "" /\ ~ret.ready
  /\ RegStatus(jobs, RetKey).state = StateReady
  /\ ret.status.State = StateIdle /\ ~ret.status.Ready

(***************************************************************************)
(* C39: under fair scheduling and with an ffmpeg that exits, a job that is *)
(* Processing gets to Ready or Failed, and the prewarm worker's wait for   *)
(* the job it started ends with the worker back at its queue.              *)
(***************************************************************************)
C39_Processing(k) == IsRunning(jobs, k)

C39_Finished(k) == RegStatus(jobs, k).state \in {StateReady, StateFailed}

C39_JobsTerminate ==
  /\ \A k \in Keys : C39_Processing(k) ~> C39_Finished(k)
  /\ (pw.pc = "wait") ~> (pw.pc = "idle")

\* C39 witness: the prewarm worker waits for its job, whose goroutine is
\* blocked on the gate while the goroutine of another job holds the slot.
C39_Witness ==
  /\ pw.pc = "wait" /\ C39_Processing(jobKey(JobMP4, pw.rel))
  /\ \E w \in BagToSet(workers) : w.kind = JobMP4 /\ w.rel = pw.rel /\ w.pc = "acquire"
  /\ \E w \in BagToSet(workers) : w.kind = JobMP4 /\ w.rel # pw.rel /\ w.pc = "run"

====
